---- MODULE Spec2Model ----
(***************************************************************************)
(* A state-machine model of the gfx rendering context (QuadContext), its   *)
(* state cache (GlCache), its resource tables and the part of the OpenGL   *)
(* state the cache mirrors.                                                *)
(*                                                                         *)
(* Conventions.  An Option of a native name (glow::Buffer, glow::Texture,  *)
(* glow::Framebuffer are NonZeroU32) is a natural number, None being 0, as *)
(* glow passes it to GL.  An Option of a record is a sequence of length at *)
(* most one.  Handles (BufferId, TextureId, ...) are the 0-based table     *)
(* indices of the source; table slot h is element h + 1 of the sequence.   *)
(***************************************************************************)
EXTENDS Integers, Sequences, FiniteSets, TLC

VARIABLES
    buffers,    \* QuadContext.buffers   : Vec<Buffer>
    textures,   \* QuadContext.textures  : Vec<Texture>
    shaders,    \* QuadContext.shaders   : Vec<ShaderInternal>
    pipelines,  \* QuadContext.pipelines : Vec<PipelineInternal>
    passes,     \* QuadContext.passes    : Vec<RenderPassInternal>
    cache,      \* QuadContext.cache     : GlCache
    features,   \* QuadContext.features  : Features
    default_framebuffer,  \* QuadContext.default_framebuffer
    gl,         \* the native context's state, as far as the calls issued read or write it
    last,       \* the operation that ran last: name, arguments, native calls issued, outcome
    hist        \* counters over the GlCache::bind_buffer calls made so far

vars == <<buffers, textures, shaders, pipelines, passes, cache, features, default_framebuffer,
          gl, last, hist>>
tables == <<buffers, textures, shaders, pipelines, passes>>
fixed == <<features, default_framebuffer>>

-----------------------------------------------------------------------------
(* Bounds of the model *)

MaxBuffers == 2
MaxTextures == 2
MaxImages == 1
MaxPipelines == 2
MaxPasses == 1
MaxCalls == 3
MaxBytes == 12
MaxFill == 16
MaxShaders == 2

-----------------------------------------------------------------------------
(* Program constants *)

MAX_VERTEX_ATTRIBUTES == 16
MAX_SHADERSTAGE_IMAGES == 12

None == 0

ARRAY_BUFFER == "ARRAY_BUFFER"
ELEMENT_ARRAY_BUFFER == "ELEMENT_ARRAY_BUFFER"

VertexBuffer == ARRAY_BUFFER
IndexBuffer == ELEMENT_ARRAY_BUFFER

AttrSlots == 0 .. (MAX_VERTEX_ATTRIBUTES - 1)
TexUnits == 0 .. (MAX_SHADERSTAGE_IMAGES - 1)

-----------------------------------------------------------------------------
(* The native context.  Only the state that the modelled calls touch.      *)

\* The native calls an operation issued, counted per kind.
NoCalls ==
    [ bind_buffer |-> 0, bind_texture |-> 0, active_texture |-> 0,
      vertex_attrib_pointer |-> 0, vertex_attrib_divisor |-> 0,
      enable_vertex_attrib_array |-> 0, disable_vertex_attrib_array |-> 0,
      buffer_data |-> 0, tex_image |-> 0, tex_parameter |-> 0,
      bind_framebuffer |-> 0, delete |-> 0,
      use_program |-> 0, enable |-> 0, disable |-> 0, depth_func |-> 0, front_face |-> 0,
      cull_face |-> 0, blend_func |-> 0, blend_equation |-> 0, stencil |-> 0,
      color_mask |-> 0, uniform |-> 0, draw |-> 0,
      viewport |-> 0, scissor |-> 0, clear |-> 0,
      drawn |-> <<>>, uploaded |-> <<>> ]

\* glBindBuffer: the binding point takes the name.
GlBindBuffer(g, target, buffer) ==
    IF target = ARRAY_BUFFER
    THEN [g EXCEPT !.array_buffer = buffer]
    ELSE [g EXCEPT !.element_array_buffer = buffer]

\* glGenBuffers: the name becomes a live buffer object's.
GlCreateBuffer(g, name) == [g EXCEPT !.buffers = @ \cup {name}]

\* glDeleteBuffers: the object dies and every binding point of the current
\* context that held it reverts to 0.
GlDeleteBuffer(g, name) ==
    [g EXCEPT !.buffers = @ \ {name},
              !.array_buffer = IF @ = name THEN None ELSE @,
              !.element_array_buffer = IF @ = name THEN None ELSE @]

\* glActiveTexture
GlActiveTexture(g, unit) == [g EXCEPT !.active_texture = unit]

\* glBindTexture(TEXTURE_2D, name) on the active unit.  A name that is not a
\* live object's is an error in a core profile (the binding stays) and names
\* a new object in a compatibility profile.
GlBindTexture(g, name) ==
    IF name = None \/ name \in g.textures
    THEN [g EXCEPT !.texture_2d[g.active_texture] = name]
    ELSE IF g.core_profile
    THEN g
    ELSE [g EXCEPT !.texture_2d[g.active_texture] = name, !.textures = @ \cup {name}]

\* glGenTextures
GlCreateTexture(g, name) == [g EXCEPT !.textures = @ \cup {name}]

\* glDeleteTextures: the object dies, and every unit that held it reverts to 0.
GlDeleteTexture(g, name) ==
    [g EXCEPT !.textures = @ \ {name},
              !.texture_2d = [u \in TexUnits |-> IF @[u] = name THEN None ELSE @[u]]]

\* glGenFramebuffers / glBindFramebuffer / glDeleteFramebuffers
GlCreateFramebuffer(g, name) == [g EXCEPT !.framebuffers = @ \cup {name}]

GlBindFramebuffer(g, name) == [g EXCEPT !.framebuffer = name]

GlDeleteFramebuffer(g, name) ==
    [g EXCEPT !.framebuffers = @ \ {name},
              !.framebuffer = IF @ = name THEN None ELSE @]

\* glUseProgram
GlUseProgram(g, program) == [g EXCEPT !.program = program]

\* glCreateProgram and glLinkProgram: programs are never deleted, so the
\* n-th program created is named n; linked holds the locations the linker
\* gave the attribute and uniform names it kept (NoLocation for the others).
GlCreateProgram(g, linked) == [g EXCEPT !.programs = Append(@, linked)]

\* glEnable / glDisable
GlEnable(g, cap) == [g EXCEPT !.enabled = @ \cup {cap}]

GlDisable(g, cap) == [g EXCEPT !.enabled = @ \ {cap}]

-----------------------------------------------------------------------------
(* GlCache (cache.rs).  Each method maps a machine m = [cache, gl, calls]  *)
(* to the machine after the call.                                          *)

(* m.binds logs every bind_buffer call made, in order: its arguments, and  *)
(* whether it issued the native bind;                                      *)
(* m.panicked is set by an operation's loop that a panic stopped.          *)

Machine(c, g) == [cache |-> c, gl |-> g, calls |-> NoCalls, binds |-> <<>>, panicked |-> FALSE]

\* A faulty bind_buffer that binds natively whatever the cache holds.
bind_buffer_uncached(m, target, buffer, index_type) ==
    LET call == [target |-> target, buffer |-> buffer, index_type |-> index_type]
        m1 == [m EXCEPT !.gl = GlBindBuffer(@, target, buffer),
                        !.calls.bind_buffer = @ + 1,
                        !.binds = Append(@, [call |-> call, native |-> TRUE])]
    IN  IF target = ARRAY_BUFFER
        THEN [m1 EXCEPT !.cache.vertex_buffer = buffer]
        ELSE [m1 EXCEPT !.cache.index_buffer = buffer, !.cache.index_type = index_type]

\* A faulty bind_buffer that records the index type only with a native bind.
bind_buffer_type_on_rebind(m, target, buffer, index_type) ==
    LET call == [target |-> target, buffer |-> buffer, index_type |-> index_type]
    IN  IF target = ARRAY_BUFFER
        THEN IF m.cache.vertex_buffer # buffer
             THEN [m EXCEPT !.cache.vertex_buffer = buffer,
                            !.gl = GlBindBuffer(@, target, buffer),
                            !.calls.bind_buffer = @ + 1,
                            !.binds = Append(@, [call |-> call, native |-> TRUE])]
             ELSE [m EXCEPT !.binds = Append(@, [call |-> call, native |-> FALSE])]
        ELSE IF m.cache.index_buffer # buffer
             THEN [m EXCEPT !.cache.index_buffer = buffer,
                            !.cache.index_type = index_type,
                            !.gl = GlBindBuffer(@, target, buffer),
                            !.calls.bind_buffer = @ + 1,
                            !.binds = Append(@, [call |-> call, native |-> TRUE])]
             ELSE [m EXCEPT !.binds = Append(@, [call |-> call, native |-> FALSE])]

bind_buffer(m, target, buffer, index_type) ==
    LET call == [target |-> target, buffer |-> buffer, index_type |-> index_type]
    IN  IF target = ARRAY_BUFFER
        THEN IF m.cache.vertex_buffer # buffer
             THEN [m EXCEPT !.cache.vertex_buffer = buffer,
                            !.gl = GlBindBuffer(@, target, buffer),
                            !.calls.bind_buffer = @ + 1,
                            !.binds = Append(@, [call |-> call, native |-> TRUE])]
             ELSE [m EXCEPT !.binds = Append(@, [call |-> call, native |-> FALSE])]
        ELSE LET m1 == IF m.cache.index_buffer # buffer
                       THEN [m EXCEPT !.cache.index_buffer = buffer,
                                      !.gl = GlBindBuffer(@, target, buffer),
                                      !.calls.bind_buffer = @ + 1,
                                      !.binds = Append(@, [call |-> call, native |-> TRUE])]
                       ELSE [m EXCEPT !.binds = Append(@, [call |-> call, native |-> FALSE])]
             IN  [m1 EXCEPT !.cache.index_type = index_type]

store_buffer_binding(m, target) ==
    IF target = ARRAY_BUFFER
    THEN [m EXCEPT !.cache.stored_vertex_buffer = m.cache.vertex_buffer]
    ELSE [m EXCEPT !.cache.stored_index_buffer = m.cache.index_buffer,
                   !.cache.stored_index_type = m.cache.index_type]

\* A faulty restore_buffer_binding that unbinds the target.
restore_buffer_binding_unbinds(m, target) == bind_buffer(m, target, None, None)

restore_buffer_binding(m, target) ==
    IF target = ARRAY_BUFFER
    THEN IF m.cache.stored_vertex_buffer # None
         THEN [bind_buffer(m, target, m.cache.stored_vertex_buffer, None)
                 EXCEPT !.cache.stored_vertex_buffer = None]
         ELSE m
    ELSE IF m.cache.stored_index_buffer # None
         THEN [bind_buffer(m, target, m.cache.stored_index_buffer, m.cache.stored_index_type)
                 EXCEPT !.cache.stored_index_buffer = None]
         ELSE m

\* A faulty bind_texture that binds natively whatever the cache holds.
bind_texture_uncached(m, slot_index, texture) ==
    [m EXCEPT !.gl = GlBindTexture(GlActiveTexture(@, slot_index), texture),
              !.calls.active_texture = @ + 1,
              !.calls.bind_texture = @ + 1,
              !.cache.textures[slot_index] = texture]

bind_texture(m, slot_index, texture) ==
    LET m1 == [m EXCEPT !.gl = GlActiveTexture(@, slot_index),
                        !.calls.active_texture = @ + 1]
    IN  IF m1.cache.textures[slot_index] # texture
        THEN [m1 EXCEPT !.gl = GlBindTexture(@, texture),
                        !.calls.bind_texture = @ + 1,
                        !.cache.textures[slot_index] = texture]
        ELSE m1

store_texture_binding(m, slot_index) ==
    [m EXCEPT !.cache.stored_texture = m.cache.textures[slot_index]]

restore_texture_binding(m, slot_index) ==
    bind_texture(m, slot_index, m.cache.stored_texture)

\* A faulty clear_buffer_bindings that clears nothing.
clear_buffer_bindings_skipped(m) == m

clear_buffer_bindings(m) ==
    LET m1 == [bind_buffer(m, ARRAY_BUFFER, None, None) EXCEPT !.cache.vertex_buffer = None]
    IN  [bind_buffer(m1, ELEMENT_ARRAY_BUFFER, None, None) EXCEPT !.cache.index_buffer = None]

RECURSIVE clear_texture_bindings_from(_, _)
clear_texture_bindings_from(m, ix) ==
    IF ix >= MAX_SHADERSTAGE_IMAGES
    THEN m
    ELSE clear_texture_bindings_from(
            IF m.cache.textures[ix] # None
            THEN [bind_texture(m, ix, None) EXCEPT !.cache.textures[ix] = None]
            ELSE m,
            ix + 1)

\* commit_frame that leaves the textures bound.
clear_texture_bindings_skipped(m) == m

clear_texture_bindings(m) == clear_texture_bindings_from(m, 0)

\* delete_buffer that leaves the cached attributes alone.
clear_vertex_attributes_skipped(m) == m

clear_vertex_attributes(m) ==
    [m EXCEPT !.cache.attributes = [attr_index \in AttrSlots |-> <<>>]]

-----------------------------------------------------------------------------
(* VertexFormat (pipeline.rs) *)

VertexFormats ==
    { "Float1", "Float2", "Float3", "Float4", "Byte1", "Byte2", "Byte3", "Byte4",
      "Short1", "Short2", "Short3", "Short4", "Int1", "Int2", "Int3", "Int4", "Mat4" }

components(format) ==
    CASE format \in {"Float1", "Byte1", "Short1", "Int1"} -> 1
      [] format \in {"Float2", "Byte2", "Short2", "Int2"} -> 2
      [] format \in {"Float3", "Byte3", "Short3", "Int3"} -> 3
      [] format \in {"Float4", "Byte4", "Short4", "Int4"} -> 4
      [] format = "Mat4" -> 16

size_bytes(format) ==
    CASE format \in {"Float1", "Float2", "Float3", "Float4"} -> components(format) * 4
      [] format \in {"Byte1", "Byte2", "Byte3", "Byte4"} -> components(format)
      [] format \in {"Short1", "Short2", "Short3", "Short4"} -> components(format) * 2
      [] format \in {"Int1", "Int2", "Int3", "Int4"} -> components(format) * 4
      [] format = "Mat4" -> 16 * 4

gl_type(format) ==
    CASE format \in {"Float1", "Float2", "Float3", "Float4", "Mat4"} -> "FLOAT"
      [] format \in {"Byte1", "Byte2", "Byte3", "Byte4"} -> "UNSIGNED_BYTE"
      [] format \in {"Short1", "Short2", "Short3", "Short4"} -> "UNSIGNED_SHORT"
      [] format \in {"Int1", "Int2", "Int3", "Int4"} -> "UNSIGNED_INT"

-----------------------------------------------------------------------------
(* PipelineInternal::new (pipeline.rs).  locate[name] is the answer of     *)
(* get_attrib_location for the shader's program: a location, or NoLocation.*)
(* The result is [ok, layout]: ok is FALSE when an assertion or an index   *)
(* out of range stops the constructor.                                     *)

NoLocation == -1

\* First loop: the stride of each source buffer.  st = [ok, stride].
\* The first loop without its assertion on the stride.
RECURSIVE buffer_strides_unchecked(_, _, _, _)
buffer_strides_unchecked(buffer_layout, attributes, k, st) ==
    IF ~st.ok \/ k > Len(attributes)
    THEN st
    ELSE LET a == attributes[k]
             b == a.buffer_index + 1
         IN  IF b > Len(buffer_layout)
             THEN [st EXCEPT !.ok = FALSE]
             ELSE LET s == IF buffer_layout[b].stride = 0
                           THEN st.stride[b] + size_bytes(a.format)
                           ELSE buffer_layout[b].stride
                  IN  buffer_strides_unchecked(buffer_layout, attributes, k + 1,
                                     [ok |-> TRUE, stride |-> [st.stride EXCEPT ![b] = s]])

RECURSIVE buffer_strides(_, _, _, _)
buffer_strides(buffer_layout, attributes, k, st) ==
    IF ~st.ok \/ k > Len(attributes)
    THEN st
    ELSE LET a == attributes[k]
             b == a.buffer_index + 1
         IN  IF b > Len(buffer_layout)
             THEN [st EXCEPT !.ok = FALSE]
             ELSE LET s == IF buffer_layout[b].stride = 0
                           THEN st.stride[b] + size_bytes(a.format)
                           ELSE buffer_layout[b].stride
                  IN  buffer_strides(buffer_layout, attributes, k + 1,
                                     [ok |-> s <= 255, stride |-> [st.stride EXCEPT ![b] = s]])

RECURSIVE attributes_len(_)
attributes_len(attributes) ==
    IF attributes = <<>>
    THEN 0
    ELSE (IF Head(attributes).format = "Mat4" THEN 4 ELSE 1) + attributes_len(Tail(attributes))

\* The inner loop with the offset advanced only past the attributes the
\* shader resolves.
RECURSIVE attribute_slots_resolved_only(_, _, _, _, _, _, _)
attribute_slots_resolved_only(a, format, attr_loc, divisor, stride, i, st) ==
    IF ~st.ok \/ i >= (IF a.format = "Mat4" THEN 4 ELSE 1)
    THEN st
    ELSE LET b == a.buffer_index + 1
             loc == attr_loc + i
             attr == [ attr_loc |-> loc, size |-> components(format), type_ |-> gl_type(format),
                       offset |-> st.offset[b], stride |-> stride[b],
                       buffer_index |-> a.buffer_index, divisor |-> divisor ]
             st1 == IF attr_loc = NoLocation
                    THEN st
                    ELSE IF loc < Len(st.layout)
                    THEN [st EXCEPT !.layout[loc + 1] = <<attr>>]
                    ELSE [st EXCEPT !.ok = FALSE]
         IN  attribute_slots_resolved_only(a, format, attr_loc, divisor, stride, i + 1,
                             IF st1.ok /\ attr_loc # NoLocation
                             THEN [st1 EXCEPT !.offset[b] = @ + size_bytes(format)]
                             ELSE st1)

\* Inner loop of the second loop: slot i of attribute a.  st = [ok, layout, offset].
RECURSIVE attribute_slots(_, _, _, _, _, _, _)
attribute_slots(a, format, attr_loc, divisor, stride, i, st) ==
    IF ~st.ok \/ i >= (IF a.format = "Mat4" THEN 4 ELSE 1)
    THEN st
    ELSE LET b == a.buffer_index + 1
             loc == attr_loc + i
             attr == [ attr_loc |-> loc, size |-> components(format), type_ |-> gl_type(format),
                       offset |-> st.offset[b], stride |-> stride[b],
                       buffer_index |-> a.buffer_index, divisor |-> divisor ]
             st1 == IF attr_loc = NoLocation
                    THEN st
                    ELSE IF loc < Len(st.layout)
                    THEN [st EXCEPT !.layout[loc + 1] = <<attr>>]
                    ELSE [st EXCEPT !.ok = FALSE]
         IN  attribute_slots(a, format, attr_loc, divisor, stride, i + 1,
                             IF st1.ok
                             THEN [st1 EXCEPT !.offset[b] = @ + size_bytes(format)]
                             ELSE st1)

\* Second loop: every attribute in declaration order.
RECURSIVE vertex_layout(_, _, _, _, _, _)
vertex_layout(buffer_layout, attributes, locate, stride, k, st) ==
    IF ~st.ok \/ k > Len(attributes)
    THEN st
    ELSE LET a == attributes[k]
             layout == buffer_layout[a.buffer_index + 1]
             divisor == IF layout.step_func = "PerVertex" THEN 0 ELSE layout.step_rate
             format == IF a.format = "Mat4" THEN "Float4" ELSE a.format
         IN  vertex_layout(buffer_layout, attributes, locate, stride, k + 1,
                           attribute_slots(a, format, locate[a.name], divisor, stride, 0, st))

\* A compiler whose byte offsets go on from those of the pipelines compiled
\* before.
PipelineInternal_new_keeps_offsets(buffer_layout, attributes, locate) ==
    LET buffer_cache == buffer_strides(buffer_layout, attributes, 1,
                            [ok |-> TRUE, stride |-> [b \in 1 .. Len(buffer_layout) |-> 0]])
    IN  IF ~buffer_cache.ok
        THEN [ok |-> FALSE, layout |-> <<>>]
        ELSE LET st == vertex_layout(buffer_layout, attributes, locate, buffer_cache.stride, 1,
                           [ ok |-> TRUE,
                             layout |-> [s \in 1 .. attributes_len(attributes) |-> <<>>],
                             offset |-> [b \in 1 .. Len(buffer_layout) |-> 8 * Len(pipelines)] ])
             IN  [ok |-> st.ok, layout |-> IF st.ok THEN st.layout ELSE <<>>]

PipelineInternal_new(buffer_layout, attributes, locate) ==
    LET buffer_cache == buffer_strides(buffer_layout, attributes, 1,
                            [ok |-> TRUE, stride |-> [b \in 1 .. Len(buffer_layout) |-> 0]])
    IN  IF ~buffer_cache.ok
        THEN [ok |-> FALSE, layout |-> <<>>]
        ELSE LET st == vertex_layout(buffer_layout, attributes, locate, buffer_cache.stride, 1,
                           [ ok |-> TRUE,
                             layout |-> [s \in 1 .. attributes_len(attributes) |-> <<>>],
                             offset |-> [b \in 1 .. Len(buffer_layout) |-> 0] ])
             IN  [ok |-> st.ok, layout |-> IF st.ok THEN st.layout ELSE <<>>]

-----------------------------------------------------------------------------
(* QuadContext::new (state.rs): the state after construction, on a fresh   *)
(* native context (nothing bound, nothing enabled).  The context's profile *)
(* and version (major >= 3 gives features.instancing) are what the         *)
(* platform glue was asked for; GlConfig::default() asks for 3.3 core.     *)

GlCache_new ==
    [ stored_index_buffer |-> None, stored_index_type |-> None,
      stored_vertex_buffer |-> None, stored_texture |-> None,
      index_buffer |-> None, index_type |-> None, vertex_buffer |-> None,
      textures |-> [u \in TexUnits |-> None],
      cur_pipeline |-> <<>>,
      color_blend |-> <<>>, alpha_blend |-> <<>>, stencil |-> <<>>,
      color_write |-> <<TRUE, TRUE, TRUE, TRUE>>,
      cull_face |-> "Nothing",
      attributes |-> [attr_index \in AttrSlots |-> <<>>] ]

GlContext_new(core_profile) ==
    [ core_profile |-> core_profile,
      buffers |-> {}, array_buffer |-> None, element_array_buffer |-> None,
      textures |-> {}, active_texture |-> 0, texture_2d |-> [u \in TexUnits |-> None],
      framebuffers |-> {}, framebuffer |-> None,
      programs |-> <<>>, program |-> None,
      attrib_array |-> [attr_index \in AttrSlots |-> FALSE],
      enabled |-> {}, depth_func |-> "Less", depth_mask |-> TRUE, front_face |-> "CounterClockwise",
      cull_face |-> "Back", color_mask |-> <<TRUE, TRUE, TRUE, TRUE>>,
      blend |-> <<>>, stencil |-> <<>> ]

\* What is remembered of the last operation: its name and arguments, the
\* native calls it issued, whether it panicked, and whether it repeated the
\* operation before it (same name, same arguments); the handle it
\* returned, <<>> when it returned none; and the error it returned, <<>>
\* when it returned none.
NoOp ==
    [ op |-> "new", args |-> <<>>, calls |-> NoCalls, panic |-> FALSE, repeat |-> FALSE,
      result |-> <<>>, error |-> <<>> ]

\* Nothing counted yet: see LogBinds.  before is the operation that ran
\* before the last one.
NoHist ==
    [ calls |-> 0, native |-> 0, changed |-> 0, rebound |-> 0, repeated_native |-> 0,
      prev |-> <<>>, requested |-> [t \in {ARRAY_BUFFER, ELEMENT_ARRAY_BUFFER} |-> None],
      before |-> <<>> ]

QuadContext_new(core_profile, major) ==
    /\ buffers = <<>>
    /\ textures = <<>>
    /\ shaders = <<>>
    /\ pipelines = <<>>
    /\ passes = <<>>
    /\ cache = GlCache_new
    /\ features = [instancing |-> major >= 3]
    /\ gl = GlContext_new(core_profile)
    /\ default_framebuffer = None
    /\ last = NoOp
    /\ hist = NoHist

\* The context GlConfig::default() gives
Init == QuadContext_new(TRUE, 3)

\* Any context the glue can give
InitAny == \E core_profile \in BOOLEAN, major \in {2, 3} : QuadContext_new(core_profile, major)

\* An operation that ran to completion, and one stopped by a panic: the
\* machine is as the operation left it, and a panic ends the program.
Return(m, op, args, result) ==
    /\ cache' = m.cache
    /\ gl' = m.gl
    /\ last' = [op |-> op, args |-> args, calls |-> m.calls, panic |-> FALSE,
                repeat |-> last.op = op /\ last.args = args, result |-> result,
                error |-> <<>>]

Done(m, op, args) == Return(m, op, args, <<>>)

Panic(m, op, args) ==
    /\ cache' = m.cache
    /\ gl' = m.gl
    /\ last' = [op |-> op, args |-> args, calls |-> m.calls, panic |-> TRUE,
                repeat |-> last.op = op /\ last.args = args, result |-> <<>>,
                error |-> <<>>]

\* An operation that returned Err(error).
Fail(m, op, args, error) ==
    /\ cache' = m.cache
    /\ gl' = m.gl
    /\ last' = [op |-> op, args |-> args, calls |-> m.calls, panic |-> FALSE,
                repeat |-> last.op = op /\ last.args = args, result |-> <<>>,
                error |-> <<error>>]

Running == ~last.panic

Handles(table) == 0 .. (Len(table) - 1)

-----------------------------------------------------------------------------
(* Buffers (state.rs).  A BufferSource is [kind, size, element_size], kind *)
(* "Slice" or "Empty", as BufferSource::slice and BufferSource::empty build *)
(* it; the usage hint reaches only the native allocation.                  *)

BufferSource(kind, element_size, count) ==
    [kind |-> kind, size |-> count * element_size, element_size |-> element_size]

\* new_buffer that creates the native buffer before it looks at the element
\* size of an index buffer.
new_buffer_checks_late(type_, data, gl_buf) ==
    LET index_type == IF type_ = IndexBuffer THEN data.element_size ELSE None
        args == [type_ |-> type_, data |-> data]
        m0 == Machine(cache, gl)
        m1 == [m0 EXCEPT !.gl = GlCreateBuffer(@, gl_buf)]
    IN  /\ Running
        /\ IF type_ = IndexBuffer /\ data.element_size \notin {1, 2, 4}
           THEN /\ Panic(m1, "new_buffer", args)
                /\ UNCHANGED <<tables, fixed, hist>>
           ELSE LET m2 == store_buffer_binding(m1, type_)
                    m3 == bind_buffer(m2, type_, gl_buf, index_type)
                    m4 == [m3 EXCEPT !.calls.buffer_data = @ + 1]
                    m5 == restore_buffer_binding(m4, type_)
                IN  /\ buffers' = Append(buffers,
                            [ gl_buf |-> gl_buf, buffer_type |-> type_,
                              size |-> data.size, index_type |-> index_type ])
                    /\ Return(m5, "new_buffer", args, <<Len(buffers') - 1>>)
                    /\ UNCHANGED <<textures, shaders, pipelines, passes, fixed, hist>>

\* gl_buf is the name create_buffer returns: any name that is no live buffer's.
new_buffer(type_, data, gl_buf) ==
    LET index_type == IF type_ = IndexBuffer THEN data.element_size ELSE None
        args == [type_ |-> type_, data |-> data]
        m0 == Machine(cache, gl)
    IN  /\ Running
        /\ IF type_ = IndexBuffer /\ data.element_size \notin {1, 2, 4}
           THEN /\ Panic(m0, "new_buffer", args)
                /\ UNCHANGED <<tables, fixed, hist>>
           ELSE LET m1 == [m0 EXCEPT !.gl = GlCreateBuffer(@, gl_buf)]
                    m2 == store_buffer_binding(m1, type_)
                    m3 == bind_buffer(m2, type_, gl_buf, index_type)
                    m4 == [m3 EXCEPT !.calls.buffer_data = @ + 1]
                    m5 == restore_buffer_binding(m4, type_)
                IN  /\ buffers' = Append(buffers,
                            [ gl_buf |-> gl_buf, buffer_type |-> type_,
                              size |-> data.size, index_type |-> index_type ])
                    /\ Return(m5, "new_buffer", args, <<Len(buffers') - 1>>)
                    /\ UNCHANGED <<textures, shaders, pipelines, passes, fixed, hist>>

\* Faulty checks of buffer_update, without the one of the size.
buffer_update_accepts_any_size(b, data) ==
    /\ data.kind = "Slice"
    /\ b.buffer_type = IndexBuffer => (b.index_type # None /\ data.element_size = b.index_type)

\* Faulty checks of buffer_update, without the one of the element size.
buffer_update_accepts_any_width(b, data) ==
    /\ data.kind = "Slice"
    /\ data.size <= b.size

\* The checks buffer_update makes of its payload before it touches anything:
\* all of them pass.
buffer_update_accepts(b, data) ==
    /\ data.kind = "Slice"
    /\ b.buffer_type = IndexBuffer => (b.index_type # None /\ data.element_size = b.index_type)
    /\ data.size <= b.size

buffer_update(buffer, data) ==
    LET b == buffers[buffer + 1]
        args == [buffer |-> buffer, data |-> data]
        m0 == Machine(cache, gl)
    IN  /\ Running
        /\ IF ~buffer_update_accepts(b, data)
           THEN /\ Panic(m0, "buffer_update", args)
                /\ UNCHANGED <<tables, fixed, hist>>
           ELSE LET m1 == store_buffer_binding(m0, b.buffer_type)
                    m2 == bind_buffer(m1, b.buffer_type, b.gl_buf, b.index_type)
                    m3 == restore_buffer_binding(m2, b.buffer_type)
                IN  /\ Done(m3, "buffer_update", args)
                    /\ UNCHANGED <<tables, fixed, hist>>

buffer_size(buffer) == buffers[buffer + 1].size

\* delete_buffer that removes the record from the table.
delete_buffer_removes_record(buffer) ==
    LET b == buffers[buffer + 1]
        args == [buffer |-> buffer]
        m0 == Machine(cache, gl)
    IN  /\ Running
        /\ IF b.gl_buf = None
           THEN /\ Panic(m0, "delete_buffer", args)
                /\ UNCHANGED <<tables, fixed, hist>>
           ELSE LET m1 == [m0 EXCEPT !.gl = GlDeleteBuffer(@, b.gl_buf),
                                     !.calls.delete = @ + 1]
                    m2 == clear_buffer_bindings(m1)
                    m3 == clear_vertex_attributes(m2)
                IN  /\ buffers' = SubSeq(buffers, 1, buffer) \o SubSeq(buffers, buffer + 2, Len(buffers))
                    /\ Done(m3, "delete_buffer", args)
                    /\ UNCHANGED <<textures, shaders, pipelines, passes, fixed, hist>>

delete_buffer(buffer) ==
    LET b == buffers[buffer + 1]
        args == [buffer |-> buffer]
        m0 == Machine(cache, gl)
    IN  /\ Running
        /\ IF b.gl_buf = None
           THEN /\ Panic(m0, "delete_buffer", args)
                /\ UNCHANGED <<tables, fixed, hist>>
           ELSE LET m1 == [m0 EXCEPT !.gl = GlDeleteBuffer(@, b.gl_buf),
                                     !.calls.delete = @ + 1]
                    m2 == clear_buffer_bindings(m1)
                    m3 == clear_vertex_attributes(m2)
                IN  /\ buffers' = [buffers EXCEPT ![buffer + 1].gl_buf = None]
                    /\ Done(m3, "delete_buffer", args)
                    /\ UNCHANGED <<textures, shaders, pipelines, passes, fixed, hist>>

-----------------------------------------------------------------------------
(* Textures (texture.rs, state.rs).  bytes is an Option of the payload's   *)
(* length: <<>> or <<len>>.                                                *)

TextureFormat_size(format, width, height) ==
    CASE format = "RGB8" -> 3 * (width * height)
      [] format = "RGBA8" -> 4 * (width * height)
      [] format = "Depth" -> 2 * (width * height)
      [] format = "Alpha" -> width * height

\* The scoped bind a texture operation makes on unit 0, around the given
\* numbers of native calls on the bound texture.
texture_scope(m, raw, tex_image, tex_parameter) ==
    LET m1 == store_texture_binding(m, 0)
        m2 == bind_texture(m1, 0, raw)
        m3 == [m2 EXCEPT !.calls.tex_image = @ + tex_image,
                         !.calls.tex_parameter = @ + tex_parameter]
    IN  restore_texture_binding(m3, 0)

\* Texture::new; raw is the name create_texture returns.  On a native
\* target it sets the alpha swizzle and the four wrap and filter parameters.
Texture_new(m, raw, params) ==
    LET m1 == store_texture_binding(m, 0)
        m2 == [m1 EXCEPT !.gl = GlCreateTexture(@, raw)]
        m3 == bind_texture(m2, 0, raw)
        m4 == [m3 EXCEPT !.calls.tex_image = @ + 1, !.calls.tex_parameter = @ + 5]
    IN  restore_texture_binding(m4, 0)

new_texture(bytes, params, raw) ==
    LET args == [bytes |-> bytes, params |-> params]
        m0 == Machine(cache, gl)
    IN  /\ Running
        /\ IF bytes # <<>> /\ TextureFormat_size(params.format, params.width, params.height) # bytes[1]
           THEN /\ Panic(m0, "new_texture", args)
                /\ UNCHANGED <<tables, fixed, hist>>
           ELSE /\ textures' = Append(textures, [raw |-> raw, params |-> params])
                /\ Return(Texture_new(m0, raw, params), "new_texture", args,
                          <<Len(textures') - 1>>)
                /\ UNCHANGED <<buffers, shaders, pipelines, passes, fixed, hist>>

texture_params(texture) == textures[texture + 1].params

texture_size(texture) == <<texture_params(texture).width, texture_params(texture).height>>

\* Texture::set_filter on the copy `t` of the table's record.
texture_set_filter(texture, filter) ==
    LET t == textures[texture + 1]
    IN  /\ Running
        /\ Done(texture_scope(Machine(cache, gl), t.raw, 0, 2), "texture_set_filter",
                [texture |-> texture, filter |-> filter])
        /\ UNCHANGED <<tables, fixed, hist>>

\* Texture::set_wrap on the copy `t` of the table's record.
texture_set_wrap(texture, wrap) ==
    LET t == textures[texture + 1]
    IN  /\ Running
        /\ Done(texture_scope(Machine(cache, gl), t.raw, 0, 2), "texture_set_wrap",
                [texture |-> texture, wrap |-> wrap])
        /\ UNCHANGED <<tables, fixed, hist>>

\* Texture::resize on the copy `t` of the table's record: the new width and
\* height are written to the copy, which is dropped when the call returns.
texture_resize(texture, width, height, bytes) ==
    LET t == textures[texture + 1]
        t1 == [t EXCEPT !.params.width = width, !.params.height = height]
    IN  /\ Running
        /\ Done(texture_scope(Machine(cache, gl), t1.raw, 1, 0), "texture_resize",
                [texture |-> texture, width |-> width, height |-> height, bytes |-> bytes])
        /\ UNCHANGED <<tables, fixed, hist>>

texture_update_part(texture, x_offset, y_offset, width, height, bytes) ==
    LET t == textures[texture + 1]
        args == [ texture |-> texture, x_offset |-> x_offset, y_offset |-> y_offset,
                  width |-> width, height |-> height, bytes |-> bytes ]
        m0 == Machine(cache, gl)
    IN  /\ Running
        /\ IF \/ TextureFormat_size(t.params.format, width, height) # bytes
              \/ ~(x_offset + width <= t.params.width)
              \/ ~(y_offset + height <= t.params.height)
           THEN Panic(m0, "texture_update_part", args)
           ELSE Done(texture_scope(m0, t.raw, 1, 1), "texture_update_part", args)
        /\ UNCHANGED <<tables, fixed, hist>>

\* QuadContext::delete_texture on machine m and texture table ts: [m, ts],
\* m.panicked set when the slot's raw handle is already taken.
\* delete_texture that leaves the record's raw handle in place.
delete_texture_in_keeps_raw(m, ts, texture) ==
    IF m.panicked \/ ts[texture + 1].raw = None
    THEN [m |-> [m EXCEPT !.panicked = TRUE], ts |-> ts]
    ELSE [m |-> [m EXCEPT !.gl = GlDeleteTexture(@, ts[texture + 1].raw),
                          !.calls.delete = @ + 1],
          ts |-> ts]

delete_texture_in(m, ts, texture) ==
    IF m.panicked \/ ts[texture + 1].raw = None
    THEN [m |-> [m EXCEPT !.panicked = TRUE], ts |-> ts]
    ELSE [m |-> [m EXCEPT !.gl = GlDeleteTexture(@, ts[texture + 1].raw),
                          !.calls.delete = @ + 1],
          ts |-> [ts EXCEPT ![texture + 1].raw = None]]

delete_texture(texture) ==
    LET r == delete_texture_in(Machine(cache, gl), textures, texture)
        args == [texture |-> texture]
    IN  /\ Running
        /\ textures' = r.ts
        /\ IF r.m.panicked
           THEN Panic(r.m, "delete_texture", args)
           ELSE Done(r.m, "delete_texture", args)
        /\ UNCHANGED <<buffers, shaders, pipelines, passes, fixed, hist>>

-----------------------------------------------------------------------------
(* Render passes (pass.rs, state.rs) *)

\* RenderPassInternal::new; gl_fb is the name create_framebuffer returns.
new_render_pass(color_img, depth_img, gl_fb) ==
    LET m0 == Machine(cache, gl)
        m1 == [m0 EXCEPT !.gl = GlBindFramebuffer(GlCreateFramebuffer(@, gl_fb), gl_fb),
                         !.calls.bind_framebuffer = @ + 1]
        m2 == [m1 EXCEPT !.gl = GlBindFramebuffer(@, default_framebuffer),
                         !.calls.bind_framebuffer = @ + 1]
    IN  /\ Running
        /\ passes' = Append(passes,
                [gl_fb |-> gl_fb, texture |-> color_img, depth_texture |-> depth_img])
        /\ Return(m2, "new_render_pass", [color_img |-> color_img, depth_img |-> depth_img],
                  <<Len(passes') - 1>>)
        /\ UNCHANGED <<buffers, textures, shaders, pipelines, fixed, hist>>

render_pass_texture(pass) == passes[pass + 1].texture

delete_render_pass(pass) ==
    LET p == passes[pass + 1]
        args == [pass |-> pass]
        m0 == Machine(cache, gl)
    IN  /\ Running
        /\ IF p.gl_fb = None
           THEN /\ Panic(m0, "delete_render_pass", args)
                /\ UNCHANGED <<tables, fixed, hist>>
           ELSE LET m1 == [m0 EXCEPT !.gl = GlDeleteFramebuffer(@, p.gl_fb),
                                     !.calls.delete = @ + 1]
                    r1 == delete_texture_in(m1, textures, p.texture)
                    r2 == IF p.depth_texture # <<>>
                          THEN delete_texture_in(r1.m, r1.ts, p.depth_texture[1])
                          ELSE r1
                IN  /\ passes' = [passes EXCEPT ![pass + 1].gl_fb = None]
                    /\ textures' = r2.ts
                    /\ IF r2.m.panicked
                       THEN Panic(r2.m, "delete_render_pass", args)
                       ELSE Done(r2.m, "delete_render_pass", args)
                    /\ UNCHANGED <<buffers, shaders, pipelines, fixed, hist>>

-----------------------------------------------------------------------------
(* Shaders (shader.rs, state.rs).  meta is [images, uniforms]: the image   *)
(* names and the uniform descriptions [name, uniform_type, array_count].   *)
(* outcome is what the driver answers: "ok", or the stage that fails; and  *)
(* linked is the locations the linker assigned.                            *)

UniformType_size(uniform_type) ==
    CASE uniform_type \in {"Float1", "Int1"} -> 4
      [] uniform_type \in {"Float2", "Int2"} -> 8
      [] uniform_type \in {"Float3", "Int3"} -> 12
      [] uniform_type \in {"Float4", "Int4"} -> 16
      [] uniform_type = "Mat4" -> 64

ShaderInternal_new(program, meta, linked) ==
    [ program |-> program,
      images |-> [n \in 1 .. Len(meta.images) |-> [gl_loc |-> linked.uniform[meta.images[n]]]],
      uniforms |-> [n \in 1 .. Len(meta.uniforms) |->
                        [ gl_loc |-> linked.uniform[meta.uniforms[n].name],
                          uniform_type |-> meta.uniforms[n].uniform_type,
                          array_count |-> meta.uniforms[n].array_count ]] ]

\* new_shader that takes a program that failed to link for a linked one.
new_shader_link_unchecked(meta, outcome, linked, info_log) ==
    LET args == [meta |-> meta, outcome |-> outcome, info_log |-> info_log]
        m0 == Machine(cache, gl)
        program == Len(gl.programs) + 1
    IN  /\ Running
        /\ IF outcome \in {"Vertex", "Fragment"}
           THEN /\ Fail(m0, "new_shader", args,
                        [ kind |-> "CompilationError", shader_type |-> outcome,
                          error_message |-> info_log ])
                /\ UNCHANGED <<tables, fixed, hist>>
           ELSE /\ shaders' = Append(shaders, ShaderInternal_new(program, meta, linked))
                /\ Return([m0 EXCEPT !.gl = GlUseProgram(GlCreateProgram(@, linked), program),
                                     !.calls.use_program = @ + 1],
                          "new_shader", args, <<Len(shaders') - 1>>)
                /\ UNCHANGED <<buffers, textures, pipelines, passes, fixed, hist>>

\* info_log is the text the driver gives for the stage that failed.
new_shader(meta, outcome, linked, info_log) ==
    LET args == [meta |-> meta, outcome |-> outcome, info_log |-> info_log]
        m0 == Machine(cache, gl)
        program == Len(gl.programs) + 1
    IN  /\ Running
        /\ CASE outcome \in {"Vertex", "Fragment"} ->
                  \* Err(CompilationError): no program is created
                  /\ Fail(m0, "new_shader", args,
                          [ kind |-> "CompilationError", shader_type |-> outcome,
                            error_message |-> info_log ])
                  /\ UNCHANGED <<tables, fixed, hist>>
             [] outcome = "Link" ->
                  \* Err(LinkError): the program was created and linking failed
                  /\ Fail([m0 EXCEPT !.gl = GlCreateProgram(@, linked)], "new_shader", args,
                          [kind |-> "LinkError", error_message |-> info_log])
                  /\ UNCHANGED <<tables, fixed, hist>>
             [] outcome = "ok" ->
                  /\ shaders' = Append(shaders, ShaderInternal_new(program, meta, linked))
                  /\ Return([m0 EXCEPT !.gl = GlUseProgram(GlCreateProgram(@, linked), program),
                                       !.calls.use_program = @ + 1],
                            "new_shader", args, <<Len(shaders') - 1>>)
                  /\ UNCHANGED <<buffers, textures, pipelines, passes, fixed, hist>>

-----------------------------------------------------------------------------
(* Pipelines (state.rs) *)

PipelineParams_default ==
    [ cull_face |-> "Nothing", front_face_order |-> "CounterClockwise",
      depth_test |-> "Always", depth_write |-> FALSE,
      color_blend |-> <<>>, alpha_blend |-> <<>>, stencil_test |-> <<>>,
      color_write |-> <<TRUE, TRUE, TRUE, TRUE>>, primitive_type |-> "Triangles" ]

new_pipeline_with_params(buffer_layout, attributes, shader, params) ==
    LET program == shaders[shader + 1].program
        locate == gl.programs[program].attrib
        pipeline == PipelineInternal_new(buffer_layout, attributes, locate)
        args == [ buffer_layout |-> buffer_layout, attributes |-> attributes,
                  shader |-> shader, params |-> params ]
        m0 == Machine(cache, gl)
    IN  /\ Running
        /\ IF ~pipeline.ok
           THEN /\ Panic(m0, "new_pipeline", args)
                /\ UNCHANGED <<tables, fixed, hist>>
           ELSE /\ pipelines' = Append(pipelines,
                        [layout |-> pipeline.layout, shader |-> shader, params |-> params])
                /\ Return(m0, "new_pipeline", args, <<Len(pipelines') - 1>>)
                /\ UNCHANGED <<buffers, textures, shaders, passes, fixed, hist>>

new_pipeline(buffer_layout, attributes, shader) ==
    new_pipeline_with_params(buffer_layout, attributes, shader, PipelineParams_default)

set_cull_face(m, cull_face) ==
    IF m.panicked \/ m.cache.cull_face = cull_face
    THEN m
    ELSE LET m1 == IF cull_face = "Nothing"
                   THEN [m EXCEPT !.gl = GlDisable(@, "CULL_FACE"), !.calls.disable = @ + 1]
                   ELSE [m EXCEPT !.gl = [GlEnable(@, "CULL_FACE") EXCEPT !.cull_face = cull_face],
                                  !.calls.enable = @ + 1, !.calls.cull_face = @ + 1]
         IN  [m1 EXCEPT !.cache.cull_face = cull_face]

\* set_blend that returns early when the cached color blend alone is the
\* one asked for.
set_blend_compares_color_only(m, color_blend, alpha_blend) ==
    IF m.panicked \/ (color_blend = <<>> /\ alpha_blend # <<>>)
    THEN [m EXCEPT !.panicked = TRUE]
    ELSE IF m.cache.color_blend = color_blend
    THEN m
    ELSE LET m1 == IF color_blend # <<>>
                   THEN LET e == IF m.cache.color_blend = <<>>
                                 THEN [m EXCEPT !.gl = GlEnable(@, "BLEND"), !.calls.enable = @ + 1]
                                 ELSE m
                            rgb == color_blend[1]
                            alpha == IF alpha_blend # <<>> THEN alpha_blend[1] ELSE rgb
                        IN  [e EXCEPT !.gl.blend = <<[ src_rgb |-> rgb.sfactor, dst_rgb |-> rgb.dfactor,
                                                       src_alpha |-> alpha.sfactor,
                                                       dst_alpha |-> alpha.dfactor,
                                                       eq_rgb |-> rgb.equation,
                                                       eq_alpha |-> alpha.equation ]>>,
                                      !.calls.blend_func = @ + 1, !.calls.blend_equation = @ + 1]
                   ELSE IF m.cache.color_blend # <<>>
                   THEN [m EXCEPT !.gl = GlDisable(@, "BLEND"), !.calls.disable = @ + 1]
                   ELSE m
         IN  [m1 EXCEPT !.cache.color_blend = color_blend, !.cache.alpha_blend = alpha_blend]

set_blend(m, color_blend, alpha_blend) ==
    IF m.panicked \/ (color_blend = <<>> /\ alpha_blend # <<>>)
    THEN [m EXCEPT !.panicked = TRUE]
    ELSE IF m.cache.color_blend = color_blend /\ m.cache.alpha_blend = alpha_blend
    THEN m
    ELSE LET m1 == IF color_blend # <<>>
                   THEN LET e == IF m.cache.color_blend = <<>>
                                 THEN [m EXCEPT !.gl = GlEnable(@, "BLEND"), !.calls.enable = @ + 1]
                                 ELSE m
                            rgb == color_blend[1]
                            alpha == IF alpha_blend # <<>> THEN alpha_blend[1] ELSE rgb
                        IN  [e EXCEPT !.gl.blend = <<[ src_rgb |-> rgb.sfactor, dst_rgb |-> rgb.dfactor,
                                                       src_alpha |-> alpha.sfactor,
                                                       dst_alpha |-> alpha.dfactor,
                                                       eq_rgb |-> rgb.equation,
                                                       eq_alpha |-> alpha.equation ]>>,
                                      !.calls.blend_func = @ + 1, !.calls.blend_equation = @ + 1]
                   ELSE IF m.cache.color_blend # <<>>
                   THEN [m EXCEPT !.gl = GlDisable(@, "BLEND"), !.calls.disable = @ + 1]
                   ELSE m
         IN  [m1 EXCEPT !.cache.color_blend = color_blend, !.cache.alpha_blend = alpha_blend]

set_stencil(m, stencil_test) ==
    IF m.panicked \/ m.cache.stencil = stencil_test
    THEN m
    ELSE LET m1 == IF stencil_test # <<>>
                   THEN LET e == IF m.cache.stencil = <<>>
                                 THEN [m EXCEPT !.gl = GlEnable(@, "STENCIL_TEST"),
                                                !.calls.enable = @ + 1]
                                 ELSE m
                        IN  [e EXCEPT !.gl.stencil = stencil_test, !.calls.stencil = @ + 6]
                   ELSE IF m.cache.stencil # <<>>
                   THEN [m EXCEPT !.gl = GlDisable(@, "STENCIL_TEST"), !.calls.disable = @ + 1]
                   ELSE m
         IN  [m1 EXCEPT !.cache.stencil = stencil_test]

set_color_write(m, color_write) ==
    IF m.panicked \/ m.cache.color_write = color_write
    THEN m
    ELSE [m EXCEPT !.gl.color_mask = color_write, !.calls.color_mask = @ + 1,
                   !.cache.color_write = color_write]

apply_pipeline(pipeline) ==
    LET internal == pipelines[pipeline + 1]
        shader == shaders[internal.shader + 1]
        m0 == Machine(cache, gl)
        m1 == [m0 EXCEPT !.cache.cur_pipeline = <<pipeline>>]
        m2 == [m1 EXCEPT !.gl = GlEnable(GlUseProgram(@, shader.program), "SCISSOR_TEST"),
                         !.calls.use_program = @ + 1, !.calls.enable = @ + 1]
        m3 == IF internal.params.depth_write
              THEN [m2 EXCEPT !.gl = [GlEnable(@, "DEPTH_TEST")
                                        EXCEPT !.depth_func = internal.params.depth_test],
                              !.calls.enable = @ + 1, !.calls.depth_func = @ + 1]
              ELSE [m2 EXCEPT !.gl = GlDisable(@, "DEPTH_TEST"), !.calls.disable = @ + 1]
        m4 == [m3 EXCEPT !.gl.front_face = internal.params.front_face_order,
                         !.calls.front_face = @ + 1]
        m5 == set_cull_face(m4, internal.params.cull_face)
        m6 == set_blend(m5, internal.params.color_blend, internal.params.alpha_blend)
        m7 == set_stencil(m6, internal.params.stencil_test)
        m8 == set_color_write(m7, internal.params.color_write)
        args == [pipeline |-> pipeline]
    IN  /\ Running
        /\ IF m8.panicked
           THEN Panic(m8, "apply_pipeline", args)
           ELSE Done(m8, "apply_pipeline", args)
        /\ UNCHANGED <<tables, fixed, hist>>

-----------------------------------------------------------------------------
(* Drawing (state.rs) *)

\* A native draw call that draws only into an offscreen framebuffer.
draw_arrays_instanced_offscreen_only(m, mode, first, count, instance_count) ==
    IF m.gl.framebuffer = default_framebuffer
    THEN m
    ELSE [m EXCEPT !.calls.draw = @ + 1,
                   !.calls.drawn = Append(@, [ mode |-> mode, first |-> first, count |-> count,
                                               instance_count |-> instance_count ])]

\* The native draw call: counted, and its arguments kept in calls.drawn.
draw_arrays_instanced(m, mode, first, count, instance_count) ==
    [m EXCEPT !.calls.draw = @ + 1,
              !.calls.drawn = Append(@, [ mode |-> mode, first |-> first, count |-> count,
                                          instance_count |-> instance_count ])]

\* draw that issues the native call whatever the features are.
draw_ignores_features(first, count, instance_count) ==
    LET args == [first |-> first, count |-> count, instance_count |-> instance_count]
        m0 == Machine(cache, gl)
    IN  /\ Running
        /\ IF cache.cur_pipeline = <<>>
           THEN Panic(m0, "draw", args)
           ELSE Done(draw_arrays_instanced(m0, "TRIANGLES", first, count, instance_count),
                     "draw", args)
        /\ UNCHANGED <<tables, fixed, hist>>

\* draw without its assertion on the pipeline.
draw_unchecked(first, count, instance_count) ==
    LET args == [first |-> first, count |-> count, instance_count |-> instance_count]
        m0 == Machine(cache, gl)
    IN  /\ Running
        /\ IF ~features.instancing /\ instance_count # 1
           THEN Done(m0, "draw", args)
           ELSE Done(draw_arrays_instanced(m0, "TRIANGLES", first, count, instance_count),
                     "draw", args)
        /\ UNCHANGED <<tables, fixed, hist>>

\* Without instancing a draw of several instances prints a message and
\* returns without drawing.
draw(first, count, instance_count) ==
    LET args == [first |-> first, count |-> count, instance_count |-> instance_count]
        m0 == Machine(cache, gl)
    IN  /\ Running
        /\ IF cache.cur_pipeline = <<>>
           THEN Panic(m0, "draw", args)
           ELSE IF ~features.instancing /\ instance_count # 1
           THEN Done(m0, "draw", args)
           ELSE Done(draw_arrays_instanced(m0, "TRIANGLES", first, count, instance_count),
                     "draw", args)
        /\ UNCHANGED <<tables, fixed, hist>>

-----------------------------------------------------------------------------
(* Bindings and the frame (state.rs).  bindings is [vertex_buffers, images], *)
(* sequences of buffer and texture handles.                                *)

\* The first loop, stopping without a panic at the first image slot the
\* bindings have no image for.
RECURSIVE bind_images_lenient(_, _, _, _)
bind_images_lenient(m, shader, bindings, n) ==
    IF m.panicked \/ n >= Len(shader.images) \/ n >= Len(bindings.images)
    THEN m
    ELSE IF shader.images[n + 1].gl_loc # NoLocation /\ n >= MAX_SHADERSTAGE_IMAGES
    THEN [m EXCEPT !.gl = GlActiveTexture(@, n), !.calls.active_texture = @ + 1,
                   !.panicked = TRUE]
    ELSE bind_images_lenient(
            IF shader.images[n + 1].gl_loc # NoLocation
            THEN [bind_texture(m, n, textures[bindings.images[n + 1] + 1].raw)
                    EXCEPT !.calls.uniform = @ + 1]
            ELSE m,
            shader, bindings, n + 1)

\* First loop of apply_bindings: image slot n (0-based) of the shader.
RECURSIVE bind_images(_, _, _, _)
bind_images(m, shader, bindings, n) ==
    IF m.panicked \/ n >= Len(shader.images)
    THEN m
    ELSE IF n >= Len(bindings.images)
    THEN [m EXCEPT !.panicked = TRUE]
    ELSE IF shader.images[n + 1].gl_loc # NoLocation /\ n >= MAX_SHADERSTAGE_IMAGES
    THEN [m EXCEPT !.gl = GlActiveTexture(@, n), !.calls.active_texture = @ + 1,
                   !.panicked = TRUE]
    ELSE bind_images(
            IF shader.images[n + 1].gl_loc # NoLocation
            THEN [bind_texture(m, n, textures[bindings.images[n + 1] + 1].raw)
                    EXCEPT !.calls.uniform = @ + 1]
            ELSE m,
            shader, bindings, n + 1)

\* A faulty comparison that never trusts the cached attribute.
attribute_changed_always(cached_attr, attribute, vb) == TRUE

\* The cached attribute of a slot does not describe `attribute` read from vb.
\* The comparison without the buffer of the cached entry.
attribute_changed_ignores_buffer(cached_attr, attribute, vb) ==
    \/ cached_attr = <<>>
    \/ attribute # cached_attr[1].attribute

attribute_changed(cached_attr, attribute, vb) ==
    \/ cached_attr = <<>>
    \/ attribute # cached_attr[1].attribute
    \/ cached_attr[1].gl_vbuf # vb.gl_buf

\* Second loop of apply_bindings: attribute slot attr_index.
RECURSIVE bind_attributes(_, _, _, _)
bind_attributes(m, pip, bindings, attr_index) ==
    IF m.panicked \/ attr_index >= MAX_VERTEX_ATTRIBUTES
    THEN m
    ELSE LET cached_attr == m.cache.attributes[attr_index]
             pip_attribute == IF attr_index < Len(pip.layout)
                              THEN pip.layout[attr_index + 1]
                              ELSE <<>>
             m1 == IF pip_attribute # <<>>
                   THEN LET attribute == pip_attribute[1]
                        IN  IF attribute.buffer_index >= Len(bindings.vertex_buffers)
                            THEN [m EXCEPT !.panicked = TRUE]
                            ELSE LET vb == buffers[bindings.vertex_buffers[attribute.buffer_index + 1] + 1]
                                 IN  IF attribute_changed(cached_attr, attribute, vb)
                                     THEN LET b == bind_buffer(m, ARRAY_BUFFER, vb.gl_buf, vb.index_type)
                                          IN  [b EXCEPT
                                                !.calls.vertex_attrib_pointer = @ + 1,
                                                !.calls.vertex_attrib_divisor =
                                                    IF features.instancing THEN @ + 1 ELSE @,
                                                !.calls.enable_vertex_attrib_array = @ + 1,
                                                !.gl.attrib_array[attr_index] = TRUE,
                                                !.cache.attributes[attr_index] =
                                                    <<[attribute |-> attribute, gl_vbuf |-> vb.gl_buf]>>]
                                     ELSE m
                   ELSE IF cached_attr # <<>>
                   THEN [m EXCEPT !.calls.disable_vertex_attrib_array = @ + 1,
                                  !.gl.attrib_array[attr_index] = FALSE,
                                  !.cache.attributes[attr_index] = <<>>]
                   ELSE m
         IN  bind_attributes(m1, pip, bindings, attr_index + 1)

apply_bindings(bindings) ==
    LET args == [bindings |-> bindings]
        m0 == Machine(cache, gl)
    IN  /\ Running
        /\ IF cache.cur_pipeline = <<>>
           THEN Panic(m0, "apply_bindings", args)
           ELSE LET pip == pipelines[cache.cur_pipeline[1] + 1]
                    shader == shaders[pip.shader + 1]
                    m1 == bind_images(m0, shader, bindings, 0)
                    m2 == bind_attributes(m1, pip, bindings, 0)
                IN  IF m2.panicked
                    THEN Panic(m2, "apply_bindings", args)
                    ELSE Done(m2, "apply_bindings", args)
        /\ UNCHANGED <<tables, fixed, hist>>

\* The f32 or i32 elements the native call of a uniform of the type reads.
uniform_elements(uniform_type) ==
    CASE uniform_type \in {"Float1", "Int1"} -> 1
      [] uniform_type \in {"Float2", "Int2"} -> 2
      [] uniform_type \in {"Float3", "Int3"} -> 3
      [] uniform_type \in {"Float4", "Int4"} -> 4
      [] uniform_type = "Mat4" -> 16

\* The loop of apply_uniforms_from_bytes from uniform slot n (0-based) on,
\* at byte `offset`.  uniforms is the slice: [len, addr], its length and its
\* address modulo 4.  overflow_checks is the build's: with them the usize
\* subtraction `size - uniform_type.size() / 4` panics when it underflows,
\* without them it wraps to a value above every offset.  cast_slice panics
\* on a slice that is not 4-aligned or not a whole number of elements.
\* The loop with the offset advanced only past the slots that have a location.
RECURSIVE upload_uniforms_live_only(_, _, _, _, _, _, _)
upload_uniforms_live_only(m, shader, uniforms, size, overflow_checks, n, offset) ==
    IF m.panicked \/ n >= Len(shader.uniforms)
    THEN m
    ELSE LET uniform == shader.uniforms[n + 1]
             quarter == UniformType_size(uniform.uniform_type) \div 4
             rest == uniforms.len - offset
         IN  IF \/ size < quarter /\ overflow_checks
                \/ size >= quarter /\ ~(offset <= size - quarter)
                \/ offset > uniforms.len
                \/ (uniforms.addr + offset) % 4 # 0
                \/ rest % 4 # 0
                \/ /\ uniform.gl_loc # NoLocation
                   /\ uniform_elements(uniform.uniform_type) > rest \div 4
             THEN [m EXCEPT !.panicked = TRUE]
             ELSE upload_uniforms_live_only(
                    IF uniform.gl_loc # NoLocation
                    THEN [m EXCEPT !.calls.uniform = @ + 1,
                                   !.calls.uploaded =
                                        Append(@, [ gl_loc |-> uniform.gl_loc,
                                                    uniform_type |-> uniform.uniform_type,
                                                    offset |-> offset ])]
                    ELSE m,
                    shader, uniforms, size, overflow_checks, n + 1,
                    IF uniform.gl_loc # NoLocation
                    THEN offset + UniformType_size(uniform.uniform_type) * uniform.array_count
                    ELSE offset)

\* The native call of a slot is kept in calls.uploaded with the offset it reads at.
RECURSIVE upload_uniforms(_, _, _, _, _, _, _)
upload_uniforms(m, shader, uniforms, size, overflow_checks, n, offset) ==
    IF m.panicked \/ n >= Len(shader.uniforms)
    THEN m
    ELSE LET uniform == shader.uniforms[n + 1]
             quarter == UniformType_size(uniform.uniform_type) \div 4
             rest == uniforms.len - offset
         IN  IF \/ size < quarter /\ overflow_checks
                \/ size >= quarter /\ ~(offset <= size - quarter)
                \/ offset > uniforms.len
                \/ (uniforms.addr + offset) % 4 # 0
                \/ rest % 4 # 0
                \/ /\ uniform.gl_loc # NoLocation
                   /\ uniform_elements(uniform.uniform_type) > rest \div 4
             THEN [m EXCEPT !.panicked = TRUE]
             ELSE upload_uniforms(
                    IF uniform.gl_loc # NoLocation
                    THEN [m EXCEPT !.calls.uniform = @ + 1,
                                   !.calls.uploaded =
                                        Append(@, [ gl_loc |-> uniform.gl_loc,
                                                    uniform_type |-> uniform.uniform_type,
                                                    offset |-> offset ])]
                    ELSE m,
                    shader, uniforms, size, overflow_checks, n + 1,
                    offset + UniformType_size(uniform.uniform_type) * uniform.array_count)

apply_uniforms_from_bytes(uniforms, size, overflow_checks) ==
    LET args == [uniforms |-> uniforms, size |-> size, overflow_checks |-> overflow_checks]
        m0 == Machine(cache, gl)
    IN  /\ Running
        /\ IF cache.cur_pipeline = <<>>
           THEN Panic(m0, "apply_uniforms_from_bytes", args)
           ELSE LET pip == pipelines[cache.cur_pipeline[1] + 1]
                    shader == shaders[pip.shader + 1]
                    m1 == upload_uniforms(m0, shader, uniforms, size, overflow_checks, 0, 0)
                IN  IF m1.panicked
                    THEN Panic(m1, "apply_uniforms_from_bytes", args)
                    ELSE Done(m1, "apply_uniforms_from_bytes", args)
        /\ UNCHANGED <<tables, fixed, hist>>

\* clear: the values are set per present component, and one clear call is
\* made when some component is present.  color, depth, stencil tell which.
clear(m, color, depth, stencil) ==
    IF color \/ depth \/ stencil
    THEN [m EXCEPT !.calls.clear = @ + 1]
    ELSE m

\* The tail of begin_default_pass and begin_pass.  action is <<>> for
\* PassAction::Nothing or <<[color, depth, stencil]>> for PassAction::Clear.
pass_action(m, action) ==
    IF action = <<>>
    THEN m
    ELSE clear(m, action[1].color, action[1].depth, action[1].stencil)

\* The viewport and the scissor rectangle are set by native calls that are
\* counted; the rectangles are not part of the GPU state kept here.
begin_default_pass(action) ==
    LET m0 == Machine(cache, gl)
        m1 == [m0 EXCEPT !.gl = GlBindFramebuffer(@, default_framebuffer),
                         !.calls.bind_framebuffer = @ + 1,
                         !.calls.viewport = @ + 1,
                         !.calls.scissor = @ + 1]
    IN  /\ Running
        /\ Done(pass_action(m1, action), "begin_default_pass", [action |-> action])
        /\ UNCHANGED <<tables, fixed, hist>>

begin_pass(pass, action) ==
    LET framebuffer == passes[pass + 1].gl_fb
        m0 == Machine(cache, gl)
        m1 == [m0 EXCEPT !.gl = GlBindFramebuffer(@, framebuffer),
                         !.calls.bind_framebuffer = @ + 1,
                         !.calls.viewport = @ + 1,
                         !.calls.scissor = @ + 1]
    IN  /\ Running
        /\ Done(pass_action(m1, action), "begin_pass", [pass |-> pass, action |-> action])
        /\ UNCHANGED <<tables, fixed, hist>>

end_render_pass ==
    LET m0 == Machine(cache, gl)
        m1 == [m0 EXCEPT !.gl = GlBindFramebuffer(@, default_framebuffer),
                         !.calls.bind_framebuffer = @ + 1]
        m2 == bind_buffer(m1, ARRAY_BUFFER, None, None)
        m3 == bind_buffer(m2, ELEMENT_ARRAY_BUFFER, None, None)
    IN  /\ Running
        /\ Done(m3, "end_render_pass", <<>>)
        /\ UNCHANGED <<tables, fixed, hist>>

commit_frame ==
    LET m0 == Machine(cache, gl)
        m1 == clear_buffer_bindings(m0)
        m2 == clear_texture_bindings(m1)
    IN  /\ Running
        /\ Done(m2, "commit_frame", <<>>)
        /\ UNCHANGED <<tables, fixed, hist>>

-----------------------------------------------------------------------------
(* The inputs the operations are called with *)

BufferNames == 1 .. MaxBuffers
TextureNames == 1 .. MaxTextures
FramebufferNames == 1 .. MaxPasses

\* Every sequence of at most n elements of S
SeqUpTo(S, n) == UNION { [1 .. k -> S] : k \in 0 .. n }

\* new_buffer: two bytes of u16, two bytes of u8, or six bytes of a 3-byte
\* element
NewBufferSources ==
    { BufferSource("Slice", 2, 1), BufferSource("Slice", 1, 2), BufferSource("Empty", 3, 2) }

\* buffer_update: 2 or 4 bytes of u16, 2 bytes of u8, or no slice
UpdateBufferSources ==
    { BufferSource("Slice", 2, 1), BufferSource("Slice", 2, 2), BufferSource("Slice", 1, 2),
      BufferSource("Empty", 2, 1) }

PerVertexLayout == [stride |-> 0, step_func |-> "PerVertex", step_rate |-> 1]
PerInstanceLayout == [stride |-> 0, step_func |-> "PerInstance", step_rate |-> 1]

PosAttribute == [name |-> "pos", format |-> "Float2", buffer_index |-> 0]
UvAttribute == [name |-> "uv", format |-> "Float2", buffer_index |-> 1]

NoImages == [images |-> <<>>, uniforms |-> <<>>]
OneImage == [images |-> <<"tex">>, uniforms |-> <<>>]

\* What the linker may answer for the names the inputs use
Linked(pos, uv, tex, tex2) ==
    [attrib |-> [pos |-> pos, uv |-> uv], uniform |-> [tex |-> tex, tex2 |-> tex2]]

Texture1x1 ==
    [format |-> "RGBA8", wrap |-> "Clamp", filter |-> "Linear", width |-> 1, height |-> 1]


-----------------------------------------------------------------------------
(* Spec: buffers, their two binding points, and one pipeline that reads    *)
(* one vertex buffer.                                                      *)

NewBuffer ==
    /\ Len(buffers) < MaxBuffers
    /\ \E type_ \in {VertexBuffer, IndexBuffer}, data \in NewBufferSources,
          gl_buf \in BufferNames \ gl.buffers :
            new_buffer(type_, data, gl_buf)

BufferUpdate ==
    \E buffer \in Handles(buffers), data \in UpdateBufferSources : buffer_update(buffer, data)

DeleteBuffer ==
    \E buffer \in Handles(buffers) : delete_buffer(buffer)

NewShaderPos ==
    /\ Len(gl.programs) < 1
    /\ new_shader(NoImages, "ok", Linked(0, NoLocation, NoLocation, NoLocation), "")

NewPipelinePos ==
    /\ Len(pipelines) < 1
    /\ \E shader \in Handles(shaders) : new_pipeline(<<PerVertexLayout>>, <<PosAttribute>>, shader)

ApplyPipeline ==
    \E pipeline \in Handles(pipelines) : apply_pipeline(pipeline)

ApplyVertexBuffer ==
    \E vertex_buffers \in SeqUpTo(Handles(buffers), 1) :
        apply_bindings([vertex_buffers |-> vertex_buffers, images |-> <<>>])

EndRenderPass == end_render_pass

CommitFrame == commit_frame

Next ==
    \/ NewBuffer
    \/ BufferUpdate
    \/ DeleteBuffer
    \/ NewShaderPos
    \/ NewPipelinePos
    \/ ApplyPipeline
    \/ ApplyVertexBuffer
    \/ EndRenderPass
    \/ CommitFrame

Spec == Init /\ [][Next]_vars

-----------------------------------------------------------------------------
(* BindSpec: vertex buffers, textures, and pipelines over one shader that   *)
(* samples images: what apply_bindings binds.                              *)

NewVertexBuffer ==
    /\ Len(buffers) < MaxBuffers
    /\ \E gl_buf \in BufferNames \ gl.buffers :
            new_buffer(VertexBuffer, BufferSource("Slice", 2, 1), gl_buf)

NewImage ==
    /\ Len(textures) < MaxImages
    /\ \E raw \in (1 .. MaxImages) \ gl.textures : new_texture(<<>>, Texture1x1, raw)

DeleteTexture ==
    \E texture \in Handles(textures) : delete_texture(texture)

NewShaderImages ==
    /\ Len(gl.programs) < 1
    /\ \E linked \in { Linked(0, 1, 0, NoLocation), Linked(1, NoLocation, NoLocation, NoLocation) } :
            new_shader([images |-> [n \in 1 .. MaxImages |-> "tex"], uniforms |-> <<>>],
                       "ok", linked, "")

NewPipeline ==
    /\ Len(pipelines) < MaxPipelines
    /\ \E attributes \in { <<PosAttribute>>, <<PosAttribute, UvAttribute>> },
          shader \in Handles(shaders) :
            new_pipeline(<<PerVertexLayout, PerInstanceLayout>>, attributes, shader)

ApplyBindings ==
    \E vertex_buffers \in SeqUpTo(Handles(buffers), 2),
       images \in SeqUpTo(Handles(textures), MaxImages) :
        apply_bindings([vertex_buffers |-> vertex_buffers, images |-> images])

BindNext ==
    \/ NewVertexBuffer
    \/ DeleteBuffer
    \/ NewImage
    \/ DeleteTexture
    \/ NewShaderImages
    \/ NewPipeline
    \/ ApplyPipeline
    \/ ApplyBindings
    \/ EndRenderPass
    \/ CommitFrame

BindSpec == Init /\ [][BindNext]_vars

-----------------------------------------------------------------------------
(* TexSpec: textures, render passes, and texture unit 0, on a context of   *)
(* either profile.                                                         *)

NewTexture ==
    /\ Len(textures) < MaxTextures
    /\ \E bytes \in {<<>>, <<4>>, <<3>>}, raw \in TextureNames \ gl.textures :
            new_texture(bytes, Texture1x1, raw)

TextureSetFilter ==
    \E texture \in Handles(textures), filter \in {"Linear", "Nearest"} :
        texture_set_filter(texture, filter)

TextureSetWrap ==
    \E texture \in Handles(textures), wrap \in {"Repeat", "Mirror", "Clamp"} :
        texture_set_wrap(texture, wrap)

TextureResize ==
    \E texture \in Handles(textures), size \in {<<1, 1>>, <<2, 1>>} :
        texture_resize(texture, size[1], size[2], <<>>)

TextureUpdatePart ==
    \E texture \in Handles(textures), width \in {1, 2} :
        texture_update_part(texture, 0, 0, width, 1, 4 * width)

NewRenderPass ==
    /\ Len(passes) < MaxPasses
    /\ \E color_img \in Handles(textures),
          depth_img \in {<<>>} \cup {<<t>> : t \in Handles(textures)},
          gl_fb \in FramebufferNames \ gl.framebuffers :
            new_render_pass(color_img, depth_img, gl_fb)

DeleteRenderPass ==
    \E pass \in Handles(passes) : delete_render_pass(pass)

NewShaderTex ==
    /\ Len(gl.programs) < 1
    /\ new_shader(OneImage, "ok", Linked(NoLocation, NoLocation, 0, NoLocation), "")

NewPipelineTex ==
    /\ Len(pipelines) < 1
    /\ \E shader \in Handles(shaders) : new_pipeline(<<>>, <<>>, shader)

ApplyImage ==
    \E images \in SeqUpTo(Handles(textures), 1) :
        apply_bindings([vertex_buffers |-> <<>>, images |-> images])

TexNext ==
    \/ NewTexture
    \/ TextureSetFilter
    \/ TextureSetWrap
    \/ TextureResize
    \/ TextureUpdatePart
    \/ DeleteTexture
    \/ NewRenderPass
    \/ DeleteRenderPass
    \/ NewShaderTex
    \/ NewPipelineTex
    \/ ApplyPipeline
    \/ ApplyImage
    \/ CommitFrame

TexSpec == InitAny /\ [][TexNext]_vars

-----------------------------------------------------------------------------
(* CacheSpec and TexCacheSpec: the methods of GlCache called directly, on  *)
(* a context whose buffer and texture names are all live objects'.         *)

CacheInit ==
    /\ buffers = <<>>
    /\ textures = <<>>
    /\ shaders = <<>>
    /\ pipelines = <<>>
    /\ passes = <<>>
    /\ cache = GlCache_new
    /\ features = [instancing |-> TRUE]
    /\ gl = [GlContext_new(TRUE) EXCEPT !.buffers = BufferNames, !.textures = TextureNames]
    /\ default_framebuffer = None
    /\ last = NoOp
    /\ hist = NoHist

\* The counters after the bind_buffer calls of `binds`.  A call has changed
\* when its arguments differ from the previous call's (the first call, which
\* has no previous one, is counted as changed exactly when it issued the
\* native bind); it has rebound when its buffer differs from the buffer the
\* last call on the same target asked for (none before the first).
RECURSIVE LogBinds(_, _)
LogBinds(h, binds) ==
    IF binds = <<>>
    THEN h
    ELSE LET b == Head(binds)
             changed == IF h.prev = <<>> THEN b.native ELSE b.call # h.prev[1]
             repeated == h.prev # <<>> /\ b.call = h.prev[1]
         IN  LogBinds(
                [ calls |-> h.calls + 1,
                  native |-> h.native + (IF b.native THEN 1 ELSE 0),
                  changed |-> h.changed + (IF changed THEN 1 ELSE 0),
                  rebound |-> h.rebound
                                + (IF b.call.buffer # h.requested[b.call.target] THEN 1 ELSE 0),
                  repeated_native |-> h.repeated_native
                                + (IF repeated /\ b.native THEN 1 ELSE 0),
                  prev |-> <<b.call>>,
                  requested |-> [h.requested EXCEPT ![b.call.target] = b.call.buffer],
                  before |-> h.before ],
                Tail(binds))

CacheCall(m, op, args) ==
    /\ Done(m, op, args)
    /\ hist' = [LogBinds(hist, m.binds) EXCEPT !.before = <<[op |-> last.op, args |-> last.args]>>]
    /\ hist'.calls <= MaxCalls
    /\ UNCHANGED <<tables, fixed>>

Targets == {ARRAY_BUFFER, ELEMENT_ARRAY_BUFFER}

BindBuffer ==
    \E target \in Targets, buffer \in {None} \cup BufferNames, index_type \in {None, 1, 2} :
        /\ CacheCall(bind_buffer(Machine(cache, gl), target, buffer, index_type), "bind_buffer",
                     [target |-> target, buffer |-> buffer, index_type |-> index_type])

StoreBufferBinding ==
    \E target \in Targets :
        CacheCall(store_buffer_binding(Machine(cache, gl), target), "store_buffer_binding",
                  [target |-> target])

RestoreBufferBinding ==
    \E target \in Targets :
        CacheCall(restore_buffer_binding(Machine(cache, gl), target), "restore_buffer_binding",
                  [target |-> target])

ClearBufferBindings ==
    CacheCall(clear_buffer_bindings(Machine(cache, gl)), "clear_buffer_bindings", <<>>)

CacheNext ==
    \/ BindBuffer
    \/ StoreBufferBinding
    \/ RestoreBufferBinding
    \/ ClearBufferBindings

CacheSpec == CacheInit /\ [][CacheNext]_vars

BindTexture ==
    \E slot_index \in 0 .. MaxImages, texture \in {None} \cup TextureNames :
        CacheCall(bind_texture(Machine(cache, gl), slot_index, texture), "bind_texture",
                  [slot_index |-> slot_index, texture |-> texture])

StoreTextureBinding ==
    \E slot_index \in 0 .. MaxImages :
        CacheCall(store_texture_binding(Machine(cache, gl), slot_index), "store_texture_binding",
                  [slot_index |-> slot_index])

RestoreTextureBinding ==
    \E slot_index \in 0 .. MaxImages :
        CacheCall(restore_texture_binding(Machine(cache, gl), slot_index),
                  "restore_texture_binding", [slot_index |-> slot_index])

ClearTextureBindings ==
    CacheCall(clear_texture_bindings(Machine(cache, gl)), "clear_texture_bindings", <<>>)

TexCacheNext ==
    \/ BindTexture
    \/ StoreTextureBinding
    \/ RestoreTextureBinding
    \/ ClearTextureBindings

TexCacheSpec == CacheInit /\ [][TexCacheNext]_vars

-----------------------------------------------------------------------------
(* UniSpec: one shader with a uniform block, one pipeline on it, and       *)
(* uniform uploads of every small length and size.                         *)

\* The uniform blocks: a vec2; a float followed by a vec2; and an array of
\* two floats followed by a float.
UniformBlocks ==
    { <<[name |-> "u0", uniform_type |-> "Float2", array_count |-> 1]>>,
      <<[name |-> "u0", uniform_type |-> "Float1", array_count |-> 1],
        [name |-> "u1", uniform_type |-> "Float2", array_count |-> 1]>>,
      <<[name |-> "u0", uniform_type |-> "Float1", array_count |-> 2],
        [name |-> "u1", uniform_type |-> "Float1", array_count |-> 1]>> }

NewShaderUniforms ==
    /\ Len(gl.programs) < 1
    /\ \E uniforms \in UniformBlocks, u0 \in {0, NoLocation}, u1 \in {1, NoLocation} :
            new_shader([images |-> <<>>, uniforms |-> uniforms], "ok",
                       [ attrib |-> [pos |-> NoLocation, uv |-> NoLocation],
                         uniform |-> [u0 |-> u0, u1 |-> u1] ], "")

ApplyUniforms ==
    \E len \in 0 .. MaxBytes, addr \in {0, 1}, size \in 0 .. MaxBytes, overflow_checks \in BOOLEAN :
        apply_uniforms_from_bytes([len |-> len, addr |-> addr], size, overflow_checks)

UniNext ==
    \/ NewShaderUniforms
    \/ NewPipelineTex
    \/ ApplyPipeline
    \/ ApplyUniforms

UniSpec == Init /\ [][UniNext]_vars

-----------------------------------------------------------------------------
(* PipeSpec: the pipeline compiler on every small attribute list, buffer   *)
(* layout and linker answer.                                               *)

\* Locations the linker may give an attribute; 16 is the first past
\* MAX_VERTEX_ATTRIBUTES, which drivers with more than 16 attributes give.
AttribLocations == {NoLocation, 0, 1, MAX_VERTEX_ATTRIBUTES}

NewShaderAttribs ==
    /\ Len(gl.programs) < 1
    /\ \E pos \in AttribLocations, uv \in AttribLocations :
            /\ pos = uv => pos = NoLocation
            /\ new_shader(NoImages, "ok", Linked(pos, uv, NoLocation, NoLocation), "")

Explicit(stride) == [stride |-> stride, step_func |-> "PerVertex", step_rate |-> 1]

BufferLayouts ==
    { <<PerVertexLayout>>, <<PerInstanceLayout>>, <<Explicit(64)>>, <<Explicit(256)>>,
      <<PerVertexLayout, PerVertexLayout>>, <<Explicit(64), PerInstanceLayout>> }

Attributes ==
    [name : {"pos", "uv"}, format : {"Float1", "Mat4"}, buffer_index : {0, 1}]

Repeated(a, n) == [k \in 1 .. n |-> a]

\* At most one attribute, followed by up to MaxFill copies of another.
AttributeLists ==
    { Repeated(a, i) \o Repeated(b, j) :
        a \in Attributes, b \in Attributes, i \in {0, 1}, j \in {0, 1, 3, 4, MaxFill} }

NewPipelineAttribs ==
    /\ Len(pipelines) < 1
    /\ \E shader \in Handles(shaders), buffer_layout \in BufferLayouts, attributes \in AttributeLists :
            new_pipeline(buffer_layout, attributes, shader)

PipeNext ==
    \/ NewShaderAttribs
    \/ NewPipelineAttribs
    \/ ApplyPipeline

PipeSpec == Init /\ [][PipeNext]_vars

-----------------------------------------------------------------------------
(* PassSpec: textures, render passes on them, and the passes begun, ended  *)
(* and deleted; a second render pass may be created while the first is     *)
(* begun.                                                                  *)

PassActions ==
    {<<>>, <<[color |-> TRUE, depth |-> TRUE, stencil |-> FALSE]>>,
           <<[color |-> FALSE, depth |-> FALSE, stencil |-> FALSE]>>}

NewTargetTexture ==
    /\ Len(textures) < MaxTextures
    /\ \E raw \in TextureNames \ gl.textures : new_texture(<<>>, Texture1x1, raw)

NewRenderPassAnywhere ==
    /\ Len(passes) <= MaxPasses
    /\ \E color_img \in Handles(textures),
          depth_img \in {<<>>} \cup {<<t>> : t \in Handles(textures)},
          gl_fb \in (1 .. MaxPasses + 1) \ gl.framebuffers :
            new_render_pass(color_img, depth_img, gl_fb)

BeginDefaultPass ==
    \E action \in PassActions : begin_default_pass(action)

BeginPass ==
    \E pass \in Handles(passes), action \in PassActions : begin_pass(pass, action)

PassNext ==
    \/ NewTargetTexture
    \/ NewRenderPassAnywhere
    \/ BeginDefaultPass
    \/ BeginPass
    \/ EndRenderPass
    \/ DeleteRenderPass
    \/ DeleteTexture

PassSpec == Init /\ [][PassNext]_vars

-----------------------------------------------------------------------------
(* TableSpec: the create and the delete operations of the five tables.     *)
(* DrawSpec: a pipeline applied, images bound and draws, with buffers and  *)
(* textures deleted and passes and frames ended between them.              *)

NewShaderAny ==
    /\ Len(gl.programs) < 1
    /\ \E meta \in {NoImages, OneImage}, outcome \in {"ok", "Vertex", "Fragment", "Link"},
          info_log \in {"", "ERROR: 0:1: syntax error"} :
            /\ outcome = "ok" => info_log = ""
            /\ new_shader(meta, outcome, Linked(NoLocation, NoLocation, 0, NoLocation), info_log)

TableNext ==
    \/ NewVertexBuffer
    \/ DeleteBuffer
    \/ NewTargetTexture
    \/ DeleteTexture
    \/ NewRenderPass
    \/ DeleteRenderPass
    \/ NewShaderAny
    \/ NewPipelineTex

TableSpec == Init /\ [][TableNext]_vars

ApplyImages ==
    \E images \in SeqUpTo(Handles(textures), MaxImages + 1) :
        apply_bindings([vertex_buffers |-> <<>>, images |-> images])

Draw ==
    \E first \in {0, 1}, instance_count \in {0, 1, 2} : draw(first, 3, instance_count)

DrawNext ==
    \/ NewVertexBuffer
    \/ DeleteBuffer
    \/ NewImage
    \/ DeleteTexture
    \/ NewShaderAny
    \/ NewPipelineTex
    \/ ApplyPipeline
    \/ ApplyImages
    \/ Draw
    \/ EndRenderPass
    \/ CommitFrame

DrawSpec == InitAny /\ [][DrawNext]_vars

-----------------------------------------------------------------------------
(* ParamSpec: pipelines of different parameters, applied one after the     *)
(* other.                                                                  *)

AlphaBlending ==
    [equation |-> "Add", sfactor |-> "SourceAlpha", dfactor |-> "OneMinusSourceAlpha"]

Additive == [equation |-> "Add", sfactor |-> "One", dfactor |-> "One"]

StencilFace(test_func, pass_op) ==
    [ fail_op |-> "Keep", depth_fail_op |-> "Keep", pass_op |-> pass_op,
      test_func |-> test_func, test_ref |-> 1, test_mask |-> 255, write_mask |-> 255 ]

StencilWrite ==
    [front |-> StencilFace("Always", "Replace"), back |-> StencilFace("Always", "Replace")]

StencilRead ==
    [front |-> StencilFace("Equal", "Keep"), back |-> StencilFace("Never", "Keep")]

\* The default parameters; those that differ from them in one of the cull
\* face, the blend states (the last: alpha blend without color blend), the
\* stencil state, the color mask and the depth state; and two that differ
\* in several.
PipelineParamChoices ==
    { PipelineParams_default,
      [PipelineParams_default EXCEPT !.cull_face = "Front"],
      [PipelineParams_default EXCEPT !.cull_face = "Back"],
      [PipelineParams_default EXCEPT !.color_blend = <<AlphaBlending>>],
      [PipelineParams_default EXCEPT !.color_blend = <<Additive>>],
      [PipelineParams_default EXCEPT !.color_blend = <<AlphaBlending>>,
                                     !.alpha_blend = <<Additive>>],
      [PipelineParams_default EXCEPT !.alpha_blend = <<Additive>>],
      [PipelineParams_default EXCEPT !.stencil_test = <<StencilWrite>>],
      [PipelineParams_default EXCEPT !.stencil_test = <<StencilRead>>],
      [PipelineParams_default EXCEPT !.color_write = <<TRUE, FALSE, TRUE, FALSE>>],
      [PipelineParams_default EXCEPT !.depth_test = "LessOrEqual", !.depth_write = TRUE],
      [PipelineParams_default EXCEPT !.depth_test = "Always", !.depth_write = TRUE],
      [PipelineParams_default EXCEPT !.depth_test = "LessOrEqual"],
      [PipelineParams_default EXCEPT !.cull_face = "Back", !.color_blend = <<AlphaBlending>>,
                                     !.stencil_test = <<StencilWrite>>,
                                     !.color_write = <<TRUE, FALSE, TRUE, FALSE>>],
      [PipelineParams_default EXCEPT !.cull_face = "Front", !.color_blend = <<AlphaBlending>>,
                                     !.depth_test = "Greater", !.depth_write = TRUE,
                                     !.front_face_order = "Clockwise"] }

NewPipelineWithParams ==
    /\ Len(pipelines) < MaxPipelines
    /\ \E shader \in Handles(shaders), params \in PipelineParamChoices :
            new_pipeline_with_params(<<>>, <<>>, shader, params)

ParamNext ==
    \/ NewShaderPos
    \/ NewPipelineWithParams
    \/ ApplyPipeline

ParamSpec == Init /\ [][ParamNext]_vars

-----------------------------------------------------------------------------
(* FrameSpec: vertex and index buffers and an image, created, bound and    *)
(* deleted, with frames committed between.                                 *)

FrameNext ==
    \/ NewBuffer
    \/ DeleteBuffer
    \/ NewImage
    \/ DeleteTexture
    \/ NewShaderTex
    \/ NewPipelineTex
    \/ ApplyPipeline
    \/ ApplyImage
    \/ EndRenderPass
    \/ CommitFrame

FrameSpec == InitAny /\ [][FrameNext]_vars

-----------------------------------------------------------------------------
(* ProgSpec: several shaders, pipelines of either primitive type on them,  *)
(* and pipelines applied, uniforms uploaded and draws made inside and      *)
(* outside the default pass.                                               *)

NewShaderProg ==
    /\ Len(shaders) < MaxShaders
    /\ \E u0 \in {0, NoLocation} :
            new_shader([ images |-> <<>>,
                         uniforms |-> <<[name |-> "u0", uniform_type |-> "Float2", array_count |-> 1]>> ],
                       "ok",
                       [ attrib |-> [pos |-> NoLocation, uv |-> NoLocation],
                         uniform |-> [u0 |-> u0] ], "")

NewPipelineProg ==
    /\ Len(pipelines) < MaxPipelines
    /\ \E shader \in Handles(shaders), primitive_type \in {"Triangles", "Lines"} :
            new_pipeline_with_params(<<>>, <<>>, shader,
                [PipelineParams_default EXCEPT !.primitive_type = primitive_type])

\* apply_uniforms: the bytes of a value of 8 or of 4 bytes, 4-aligned.
ApplyUniformsSource ==
    \E size \in {4, 8} : apply_uniforms_from_bytes([len |-> size, addr |-> 0], size, TRUE)

ProgNext ==
    \/ NewShaderProg
    \/ NewPipelineProg
    \/ ApplyPipeline
    \/ ApplyImage
    \/ ApplyUniformsSource
    \/ Draw
    \/ BeginDefaultPass
    \/ EndRenderPass

ProgSpec == Init /\ [][ProgNext]_vars

-----------------------------------------------------------------------------
(* InPassSpec: a pipeline applied, a vertex buffer bound, uniforms         *)
(* uploaded and draws made before, inside and after the default pass and   *)
(* an offscreen pass.                                                      *)

InPassNext ==
    \/ NewVertexBuffer
    \/ NewTargetTexture
    \/ NewRenderPass
    \/ NewShaderPos
    \/ NewPipelinePos
    \/ ApplyPipeline
    \/ ApplyVertexBuffer
    \/ ApplyUniformsSource
    \/ Draw
    \/ BeginDefaultPass
    \/ BeginPass
    \/ EndRenderPass

InPassSpec == Init /\ [][InPassNext]_vars

-----------------------------------------------------------------------------
(* Properties of the buffer operations, checked under Spec                 *)

\* The cache's current binding of a target: the buffer, and for the index
\* target the index type with it.
CurrentBinding(c, target) ==
    IF target = ARRAY_BUFFER
    THEN <<c.vertex_buffer>>
    ELSE <<c.index_buffer, c.index_type>>

\* C1: after any sequence of new_buffer, buffer_update, delete_buffer,
\* apply_bindings, end_render_pass and commit_frame, the cache's vertex_buffer
\* and index_buffer are the buffers bound on the GPU's ARRAY_BUFFER and
\* ELEMENT_ARRAY_BUFFER targets.
C1_BufferCacheMatchesGpu ==
    Running =>
        /\ cache.vertex_buffer = gl.array_buffer
        /\ cache.index_buffer = gl.element_array_buffer

\* A buffer was drawn from, and both targets hold a buffer.
C1_Witness ==
    /\ last.op = "apply_bindings"
    /\ Running
    /\ last.calls.bind_buffer = 1
    /\ cache.vertex_buffer # None
    /\ cache.index_buffer # None
    /\ cache.vertex_buffer = gl.array_buffer
    /\ cache.index_buffer = gl.element_array_buffer

\* C5 as stated: new_buffer and buffer_update leave the cache's current
\* binding of the buffer's target (and, for the index target, the index
\* type) as it was before the call, also when nothing was bound.
C5_BindingKept ==
    [][ \A target \in {ARRAY_BUFFER, ELEMENT_ARRAY_BUFFER} :
            ( /\ ~last'.panic
              /\ \/ last'.op = "new_buffer" /\ last'.args.type_ = target
                 \/ /\ last'.op = "buffer_update"
                    /\ buffers[last'.args.buffer + 1].buffer_type = target )
            => CurrentBinding(cache', target) = CurrentBinding(cache, target) ]_vars

\* C8: buffer_update with a payload larger than the buffer's recorded size
\* panics and changes nothing; and no buffer_update, whatever its payload,
\* alters the recorded size of the buffer.
C8_UpdateWithinSize ==
    [][ \A buffer \in Handles(buffers) :
            (last'.op = "buffer_update" /\ last'.args.buffer = buffer)
            => /\ last'.args.data.size > buffer_size(buffer)
                    => last'.panic /\ UNCHANGED <<tables, cache, gl, fixed>>
               /\ buffer_size(buffer)' = buffer_size(buffer) ]_vars

\* A slice of the right element size and too many bytes was refused.
C8_Witness ==
    /\ last.op = "buffer_update"
    /\ last.panic
    /\ last.args.data.kind = "Slice"
    /\ buffers[last.args.buffer + 1].buffer_type = IndexBuffer
    /\ last.args.data.element_size = buffers[last.args.buffer + 1].index_type
    /\ last.args.data.size > buffer_size(last.args.buffer)

-----------------------------------------------------------------------------
(* Properties of apply_bindings, checked under BindSpec                    *)

\* C6: when apply_bindings runs twice in succession with the same bindings,
\* the second call issues no native buffer bind, texture bind, attribute
\* pointer, attribute enable or attribute disable, and leaves the cache as
\* it was.
C6_SecondApplyIsFree ==
    [][ ( /\ last.op = "apply_bindings" /\ ~last.panic
          /\ last'.op = "apply_bindings" /\ last'.args = last.args )
        => /\ ~last'.panic
           /\ last'.calls.bind_buffer = 0
           /\ last'.calls.bind_texture = 0
           /\ last'.calls.vertex_attrib_pointer = 0
           /\ last'.calls.enable_vertex_attrib_array = 0
           /\ last'.calls.disable_vertex_attrib_array = 0
           /\ cache' = cache ]_vars

\* A second apply_bindings of one texture and two vertex buffers, under a
\* pipeline that reads both buffers and a shader that samples the texture.
C6_Witness ==
    /\ last.op = "apply_bindings"
    /\ last.repeat
    /\ ~last.panic
    /\ Len(last.args.bindings.vertex_buffers) = 2
    /\ Len(last.args.bindings.images) = 1
    /\ cache.textures[0] # None
    /\ cache.attributes[0] # <<>>
    /\ cache.attributes[1] # <<>>
    /\ last.calls.active_texture = 1
    /\ last.calls.vertex_attrib_pointer = 0

-----------------------------------------------------------------------------
(* Properties of the texture operations, checked under TexSpec             *)

\* C2 as stated: after any sequence of texture operations, delete_texture
\* and delete_render_pass included, the cache's texture of every unit is
\* the texture bound to that unit on the GPU.
C2_TextureCacheMatchesGpu ==
    Running => \A unit \in TexUnits : cache.textures[unit] = gl.texture_2d[unit]

\* C9 as stated: after texture_resize(t, w, h, _), texture_size(t) is (w, h)
\* and the table of textures has the slots it had.
C9_ResizeRecorded ==
    [][ \A texture \in Handles(textures), width \in 1 .. 2, height \in 1 .. 2 :
            ( /\ last'.op = "texture_resize" /\ ~last'.panic
              /\ last'.args.texture = texture
              /\ last'.args.width = width /\ last'.args.height = height )
            => /\ texture_size(texture)' = <<width, height>>
               /\ Len(textures') = Len(textures) ]_vars

\* C10 as stated: after texture_set_filter(t, f) the filter of
\* texture_params(t) is f, and after texture_set_wrap(t, w) its wrap is w.
C10_ParamsRecorded ==
    [][ \A texture \in Handles(textures) :
            /\ \A filter \in {"Linear", "Nearest"} :
                  ( /\ last'.op = "texture_set_filter" /\ ~last'.panic
                    /\ last'.args.texture = texture /\ last'.args.filter = filter )
                  => texture_params(texture)'.filter = filter
            /\ \A wrap \in {"Repeat", "Mirror", "Clamp"} :
                  ( /\ last'.op = "texture_set_wrap" /\ ~last'.panic
                    /\ last'.args.texture = texture /\ last'.args.wrap = wrap )
                  => texture_params(texture)'.wrap = wrap ]_vars

-----------------------------------------------------------------------------
(* Properties of GlCache's buffer methods, checked under CacheSpec         *)

\* C3 as stated: the native buffer binds issued are as many as the
\* bind_buffer calls whose (target, buffer, index type) differ from the
\* previous call's, and a call that repeats the previous call's arguments
\* issues none.
C3_NativePerChangedCall ==
    /\ hist.native = hist.changed
    /\ hist.repeated_native = 0

\* C3, amended: the native buffer binds issued are as many as the
\* bind_buffer calls whose buffer differs from the buffer of the last call on
\* the same target (from no buffer, for the first call on a target), and a
\* call that repeats the previous call's arguments issues none.
C3_NativePerReboundTarget ==
    /\ hist.native = hist.rebound
    /\ hist.repeated_native = 0

\* Three calls were made; one bound natively, and one that differs from the
\* call before it did not.
C3_Witness ==
    /\ hist.calls = 3
    /\ hist.native = 1
    /\ hist.changed = 2
    /\ hist.rebound = 1

\* C4: restore_buffer_binding right after store_buffer_binding of the same
\* target leaves that target's current binding, in the cache and on the
\* GPU, as it was, and issues no native bind.
C4_StoreRestoreKeepsBinding ==
    [][ ( /\ last.op = "store_buffer_binding"
          /\ last'.op = "restore_buffer_binding"
          /\ last'.args.target = last.args.target )
        => /\ CurrentBinding(cache', last'.args.target) = CurrentBinding(cache, last'.args.target)
           /\ gl'.array_buffer = gl.array_buffer
           /\ gl'.element_array_buffer = gl.element_array_buffer
           /\ last'.calls.bind_buffer = 0 ]_vars

\* An index buffer was bound, stored and, with no call between, restored.
C4_Witness ==
    /\ last.op = "restore_buffer_binding"
    /\ last.args.target = ELEMENT_ARRAY_BUFFER
    /\ hist.before = <<[op |-> "store_buffer_binding", args |-> [target |-> ELEMENT_ARRAY_BUFFER]]>>
    /\ cache.index_buffer # None
    /\ cache.index_type # None
    /\ hist.prev = <<[target |-> ELEMENT_ARRAY_BUFFER, buffer |-> cache.index_buffer,
                      index_type |-> cache.index_type]>>
    /\ hist.calls = 2

-----------------------------------------------------------------------------
(* Properties of the uniform upload, checked under UniSpec                 *)

\* The byte offset of uniform slot n (1-based) of a shader's block: the
\* bytes of the slots before it.
RECURSIVE UniformOffset(_, _)
UniformOffset(uniforms, n) ==
    IF n = 1
    THEN 0
    ELSE UniformOffset(uniforms, n - 1)
            + UniformType_size(uniforms[n - 1].uniform_type) * uniforms[n - 1].array_count

\* C11 as stated: apply_uniforms_from_bytes panics whenever the byte offset
\* of some uniform slot of the active shader plus the byte width of the
\* slot's type exceeds the supplied size, whether or not the slot has a
\* location.
C11_ShortUniformsPanic ==
    [][ ( /\ last'.op = "apply_uniforms_from_bytes"
          /\ cache.cur_pipeline # <<>>
          /\ LET uniforms == shaders[pipelines[cache.cur_pipeline[1] + 1].shader + 1].uniforms
             IN  \E n \in 1 .. Len(uniforms) :
                    UniformOffset(uniforms, n) + UniformType_size(uniforms[n].uniform_type)
                        > last'.args.size )
        => last'.panic ]_vars

\* A vec2 with a location, uploaded whole from an aligned 8-byte slice with
\* size 4, in a build with overflow checks: no panic.
C11_ShortSizeAccepted ==
    /\ last.op = "apply_uniforms_from_bytes"
    /\ last.args = [uniforms |-> [len |-> 8, addr |-> 0], size |-> 4, overflow_checks |-> TRUE]
    /\ ~last.panic
    /\ Len(shaders[1].uniforms) = 1
    /\ shaders[1].uniforms[1].gl_loc = 0
    /\ last.calls.uniform = 1

-----------------------------------------------------------------------------
(* Properties of the pipeline compiler, checked under PipeSpec             *)

\* The linker's answers for the shader a new_pipeline call names.
LocationsOf(shader) == gl.programs[shaders[shader + 1].program].attrib

SlotsOf(a) == IF a.format = "Mat4" THEN 4 ELSE 1

\* C12 as stated: new_pipeline panics if a location the shader gives one of
\* the attributes, or one of the 4 consecutive locations of a Mat4, is 16
\* or more.
C12_LocationPastMaxPanics ==
    [][ ( /\ last'.op = "new_pipeline"
          /\ \E k \in 1 .. Len(last'.args.attributes) :
                LET a == last'.args.attributes[k]
                    loc == LocationsOf(last'.args.shader)[a.name]
                IN  /\ loc # NoLocation
                    /\ loc + SlotsOf(a) - 1 >= MAX_VERTEX_ATTRIBUTES )
        => last'.panic ]_vars

\* C13 as stated: the slot table of every pipeline of the table has at most
\* MAX_VERTEX_ATTRIBUTES entries.
C13_LayoutWithinMax ==
    \A p \in 1 .. Len(pipelines) : Len(pipelines[p].layout) <= MAX_VERTEX_ATTRIBUTES

\* The bytes of the first k attributes that read buffer b (1-based).
RECURSIVE PrefixBytes(_, _, _)
PrefixBytes(attributes, k, b) ==
    IF k = 0
    THEN 0
    ELSE PrefixBytes(attributes, k - 1, b)
            + (IF attributes[k].buffer_index + 1 = b THEN size_bytes(attributes[k].format) ELSE 0)

\* Some attribute reads a buffer whose stride, the declared one or, when 0 is
\* declared, the bytes of the attributes of the buffer up to it, is over 255.
StrideExceeded(buffer_layout, attributes) ==
    \E k \in 1 .. Len(attributes) :
        LET b == attributes[k].buffer_index + 1
        IN  /\ b <= Len(buffer_layout)
            /\ IF buffer_layout[b].stride = 0
               THEN PrefixBytes(attributes, k, b) > 255
               ELSE buffer_layout[b].stride > 255

\* C14: new_pipeline panics, and appends no pipeline, whenever the stride of
\* a buffer an attribute reads (declared, or the running sum of the byte
\* sizes when 0 is declared) exceeds 255.
C14_StridePanics ==
    [][ ( /\ last'.op = "new_pipeline"
          /\ StrideExceeded(last'.args.buffer_layout, last'.args.attributes) )
        => /\ last'.panic
           /\ pipelines' = pipelines ]_vars

\* A new_pipeline that panicked on the running sum of 4 Mat4 of one buffer,
\* with every buffer index in range and no location past the table.
C14_Witness ==
    /\ last.op = "new_pipeline"
    /\ last.panic
    /\ pipelines = <<>>
    /\ last.args.buffer_layout = <<PerVertexLayout>>
    /\ Len(last.args.attributes) = 4
    /\ \A k \in 1 .. 4 : last.args.attributes[k] = [name |-> "pos", format |-> "Mat4", buffer_index |-> 0]
    /\ LocationsOf(last.args.shader)["pos"] = NoLocation
    /\ StrideExceeded(last.args.buffer_layout, last.args.attributes)

\* C15 as stated, for a Mat4 that is the only attribute: with buffer 0 at
\* stride 0 and the name at location L, new_pipeline stores exactly 4
\* entries, at slots L .. L+3, each of 4 floats, 16 bytes apart in slot
\* order, with stride 64, and with divisor 0 when the buffer is PerVertex.
C15_Mat4Expands ==
    [][ \A L \in AttribLocations \ {NoLocation} :
          ( /\ last'.op = "new_pipeline"
            /\ Len(last'.args.attributes) = 1
            /\ last'.args.attributes[1].format = "Mat4"
            /\ last'.args.attributes[1].buffer_index = 0
            /\ last'.args.buffer_layout[1].stride = 0
            /\ LocationsOf(last'.args.shader)[last'.args.attributes[1].name] = L )
          => /\ ~last'.panic
             /\ Len(pipelines') = Len(pipelines) + 1
             /\ LET layout == pipelines'[Len(pipelines')].layout
                IN  /\ \A i \in 0 .. 3 :
                        /\ L + i < Len(layout)
                        /\ Len(layout[L + i + 1]) = 1
                        /\ layout[L + i + 1][1].attr_loc = L + i
                        /\ layout[L + i + 1][1].size = 4
                        /\ layout[L + i + 1][1].type_ = gl_type("Float4")
                        /\ layout[L + i + 1][1].offset = 16 * i
                        /\ layout[L + i + 1][1].stride = 64
                        /\ layout[L + i + 1][1].buffer_index = 0
                        /\ last'.args.buffer_layout[1].step_func = "PerVertex"
                              => layout[L + i + 1][1].divisor = 0
                    /\ \A s \in 1 .. Len(layout) :
                        layout[s] # <<>> => s - 1 \in L .. L + 3 ]_vars

\* The same Mat4 at location 0: the 4 entries are stored as C15 says.
C15_Mat4AtZero ==
    /\ last.op = "new_pipeline"
    /\ ~last.panic
    /\ last.args.attributes = <<[name |-> "pos", format |-> "Mat4", buffer_index |-> 0]>>
    /\ last.args.buffer_layout = <<PerVertexLayout>>
    /\ LocationsOf(last.args.shader)["pos"] = 0
    /\ Len(pipelines[1].layout) = 4
    /\ \A i \in 0 .. 3 :
            pipelines[1].layout[i + 1] =
                <<[ attr_loc |-> i, size |-> 4, type_ |-> gl_type("Float4"), offset |-> 16 * i,
                    stride |-> 64, buffer_index |-> 0, divisor |-> 0 ]>>

-----------------------------------------------------------------------------
(* Properties of the render passes, checked under PassSpec                 *)

\* C16 as stated: new_render_pass leaves the framebuffer binding of the
\* GPU as it was before the call, also when a render pass is begun.
C16_FramebufferBindingKept ==
    [][ last'.op = "new_render_pass" => gl'.framebuffer = gl.framebuffer ]_vars

\* C17: delete_render_pass on a pass with a framebuffer, whose color texture
\* and, if present, depth texture have their native handles, deletes the
\* framebuffer and the textures: afterwards the pass's gl_fb and the
\* textures' raw are None, the names are gone from the GPU, and every table
\* has the length it had.
C17_DeleteRenderPassReleases ==
    [][ \A pass \in Handles(passes) :
          LET p == passes[pass + 1]
              attached == {p.texture} \cup {p.depth_texture[i] : i \in 1 .. Len(p.depth_texture)}
          IN  ( /\ last'.op = "delete_render_pass"
                /\ last'.args.pass = pass
                /\ p.gl_fb # None
                /\ \A t \in attached : textures[t + 1].raw # None )
              => /\ passes'[pass + 1].gl_fb = None
                 /\ p.gl_fb \notin gl'.framebuffers
                 /\ \A t \in attached :
                        /\ textures'[t + 1].raw = None
                        /\ textures[t + 1].raw \notin gl'.textures
                 /\ Len(passes') = Len(passes)
                 /\ Len(textures') = Len(textures)
                 /\ Len(buffers') = Len(buffers)
                 /\ Len(shaders') = Len(shaders)
                 /\ Len(pipelines') = Len(pipelines) ]_vars

\* A pass with a color and a depth texture, both live, was deleted.
C17_Witness ==
    /\ last.op = "delete_render_pass"
    /\ ~last.panic
    /\ LET p == passes[last.args.pass + 1]
       IN  /\ p.gl_fb = None
           /\ p.depth_texture # <<>>
           /\ p.depth_texture[1] # p.texture
           /\ textures[p.texture + 1].raw = None
           /\ textures[p.depth_texture[1] + 1].raw = None
    /\ gl.textures = {}

-----------------------------------------------------------------------------
(* Properties of drawing, checked under DrawSpec                           *)

\* C20: draw panics exactly when no pipeline is applied; apply_pipeline
\* leaves a pipeline applied, and no operation, end_render_pass,
\* commit_frame, delete_buffer and delete_texture among them, takes the
\* applied pipeline away.
C20_DrawNeedsPipeline ==
    [][ /\ last'.op = "draw" => (last'.panic <=> cache.cur_pipeline = <<>>)
        /\ (last'.op = "apply_pipeline" /\ ~last'.panic) => cache'.cur_pipeline # <<>>
        /\ cache.cur_pipeline # <<>> => cache'.cur_pipeline # <<>> ]_vars

\* A draw that went through after the frame was committed and a buffer and
\* a texture were deleted.
C20_Witness ==
    /\ last.op = "draw"
    /\ ~last.panic
    /\ last.calls.draw = 1
    /\ cache.cur_pipeline # <<>>
    /\ \E b \in 1 .. Len(buffers) : buffers[b].gl_buf = None
    /\ \E t \in 1 .. Len(textures) : textures[t].raw = None

\* The shader of the applied pipeline.
ActiveShader == shaders[pipelines[cache.cur_pipeline[1] + 1].shader + 1]

\* C19: with a pipeline applied, apply_bindings panics when the bindings
\* have fewer images than the shader of the pipeline declares, and, the
\* pipeline having no vertex attributes that could fail, does not panic when
\* they have as many or more.
C19_ImageCountChecked ==
    [][ ( /\ last'.op = "apply_bindings"
          /\ cache.cur_pipeline # <<>> )
        => ( last'.panic <=> Len(last'.args.bindings.images) < Len(ActiveShader.images) ) ]_vars

\* apply_bindings without images panicked under a shader with one image.
C19_Witness ==
    /\ last.op = "apply_bindings"
    /\ last.panic
    /\ cache.cur_pipeline # <<>>
    /\ Len(ActiveShader.images) = 1
    /\ last.args.bindings.images = <<>>

\* apply_bindings with two images went through under a shader with one.
C19_MoreImagesAccepted ==
    /\ last.op = "apply_bindings"
    /\ ~last.panic
    /\ cache.cur_pipeline # <<>>
    /\ Len(ActiveShader.images) = 1
    /\ Len(last.args.bindings.images) = 2

\* What draw does with a pipeline applied: nothing when the context has no
\* instancing and instance_count is not 1; otherwise one native draw call of
\* triangles with the first, count and instance_count given.
DrawEffect ==
    IF ~features.instancing /\ last'.args.instance_count # 1
    THEN /\ ~last'.panic
         /\ last'.calls = NoCalls
         /\ UNCHANGED <<cache, gl, tables, fixed>>
    ELSE /\ ~last'.panic
         /\ last'.calls = [NoCalls EXCEPT !.draw = 1,
                                          !.drawn = << [ mode |-> "TRIANGLES",
                                                         first |-> last'.args.first,
                                                         count |-> last'.args.count,
                                                         instance_count |-> last'.args.instance_count ] >>]

\* C21 as stated: without instancing and with instance_count other than 1,
\* draw makes no native call, does not panic and changes nothing, applied
\* pipeline or not; in every other case with a pipeline applied it makes
\* exactly one native draw call with its arguments.
C21_DrawAsStated ==
    [][ last'.op = "draw"
        => /\ (~features.instancing /\ last'.args.instance_count # 1) => DrawEffect
           /\ cache.cur_pipeline # <<>> => DrawEffect ]_vars

\* C21 amended: with a pipeline applied, draw without instancing and with
\* instance_count other than 1 makes no native call, does not panic and
\* changes nothing, and in every other case makes exactly one native draw
\* call with its arguments.
C21_DrawWithPipeline ==
    [][ (last'.op = "draw" /\ cache.cur_pipeline # <<>>) => DrawEffect ]_vars

\* A draw of two instances was ignored by a context without instancing
\* that has a pipeline applied.
C21_Witness ==
    /\ last.op = "draw"
    /\ ~last.panic
    /\ cache.cur_pipeline # <<>>
    /\ ~features.instancing
    /\ last.args.instance_count = 2
    /\ last.calls.draw = 0

-----------------------------------------------------------------------------
(* Properties of the tables, checked under TableSpec                       *)

\* The operation appended one record to `after` and returned its handle,
\* the length of the table before.
Appended(before, after) ==
    /\ Len(after) = Len(before) + 1
    /\ last'.result = <<Len(after) - 1>>
    /\ last'.result = <<Len(before)>>

\* Every record of `before` is at its index in `after`, the same but for the
\* native handle in field h, which is the same or None.
Kept(before, after, h) ==
    /\ Len(after) >= Len(before)
    /\ \A i \in 1 .. Len(before) :
        \/ after[i] = before[i]
        \/ after[i] = [before[i] EXCEPT ![h] = None]

\* C18: a create operation that succeeds appends one record to its table
\* and returns the handle len-1; no operation shortens a table or moves a
\* record, so a handle is never returned twice; every other operation
\* leaves the lengths alone, and the delete operations change only the
\* native handle of the slot (delete_render_pass also those of the pass's
\* textures), to None.
C18_TablesAppendOnly ==
    [][ /\ Kept(buffers, buffers', "gl_buf")
        /\ Kept(textures, textures', "raw")
        /\ Kept(passes, passes', "gl_fb")
        /\ Len(shaders') >= Len(shaders)
        /\ SubSeq(shaders', 1, Len(shaders)) = shaders
        /\ Len(pipelines') >= Len(pipelines)
        /\ SubSeq(pipelines', 1, Len(pipelines)) = pipelines
        /\ (last'.op = "new_buffer" /\ ~last'.panic)
              => Appended(buffers, buffers') /\ UNCHANGED <<textures, shaders, pipelines, passes>>
        /\ (last'.op = "new_texture" /\ ~last'.panic)
              => Appended(textures, textures') /\ UNCHANGED <<buffers, shaders, pipelines, passes>>
        /\ (last'.op = "new_shader" /\ last'.args.outcome = "ok")
              => Appended(shaders, shaders') /\ UNCHANGED <<buffers, textures, pipelines, passes>>
        /\ (last'.op = "new_shader" /\ last'.args.outcome # "ok")
              => last'.result = <<>> /\ UNCHANGED tables
        /\ (last'.op = "new_pipeline" /\ ~last'.panic)
              => Appended(pipelines, pipelines') /\ UNCHANGED <<buffers, textures, shaders, passes>>
        /\ (last'.op = "new_render_pass" /\ ~last'.panic)
              => Appended(passes, passes') /\ UNCHANGED <<buffers, textures, shaders, pipelines>>
        /\ last'.op = "delete_buffer"
              => /\ UNCHANGED <<textures, shaders, pipelines, passes>>
                 /\ ~last'.panic
                      => buffers' = [buffers EXCEPT ![last'.args.buffer + 1].gl_buf = None]
        /\ last'.op = "delete_texture"
              => /\ UNCHANGED <<buffers, shaders, pipelines, passes>>
                 /\ ~last'.panic
                      => textures' = [textures EXCEPT ![last'.args.texture + 1].raw = None]
        /\ last'.op = "delete_render_pass"
              => /\ UNCHANGED <<buffers, shaders, pipelines>>
                 /\ Len(textures') = Len(textures)
                 /\ ~last'.panic
                      => passes' = [passes EXCEPT ![last'.args.pass + 1].gl_fb = None]
      ]_vars

\* The second buffer got handle 1 after the buffer of handle 0 was deleted,
\* and the GPU gave it the name the deleted buffer had.
C18_Witness ==
    /\ last.op = "new_buffer"
    /\ last.result = <<1>>
    /\ Len(buffers) = 2
    /\ buffers[1].gl_buf = None
    /\ buffers[2].gl_buf = 1
    /\ Len(textures) = 2
    /\ Len(passes) = 1
    /\ Len(shaders) = 1
    /\ Len(pipelines) = 1

\* C22: when the vertex stage or the fragment stage fails to compile, or
\* the program fails to link, new_shader returns the error of that kind,
\* CompilationError with the stage that failed or LinkError, with the text
\* the driver gave; it returns no handle and no table changes.
C22_ShaderErrors ==
    [][ ( /\ last'.op = "new_shader"
          /\ last'.args.outcome # "ok" )
        => /\ ~last'.panic
           /\ last'.result = <<>>
           /\ Len(last'.error) = 1
           /\ last'.error[1].error_message = last'.args.info_log
           /\ last'.args.outcome \in {"Vertex", "Fragment"}
                => /\ last'.error[1].kind = "CompilationError"
                   /\ last'.error[1].shader_type = last'.args.outcome
           /\ last'.args.outcome = "Link" => last'.error[1].kind = "LinkError"
           /\ UNCHANGED tables ]_vars

\* new_shader returned a LinkError with the text of the driver, with a
\* buffer and a texture in the tables and no shader.
C22_Witness ==
    /\ last.op = "new_shader"
    /\ last.error = <<[kind |-> "LinkError", error_message |-> "ERROR: 0:1: syntax error"]>>
    /\ shaders = <<>>
    /\ Len(buffers) = 1
    /\ Len(textures) = 1

-----------------------------------------------------------------------------
(* Properties of apply_pipeline, checked under ParamSpec                   *)

\* The GPU has the cull face, the blending, the stencil test and the color
\* mask the cache c records: each capability is enabled exactly when the
\* cache holds a state for it, with the values of that state.  Without an
\* alpha blend the color blend is used for alpha.
GpuMatchesCache(c, g) ==
    /\ ("CULL_FACE" \in g.enabled) <=> (c.cull_face # "Nothing")
    /\ c.cull_face # "Nothing" => g.cull_face = c.cull_face
    /\ ("BLEND" \in g.enabled) <=> (c.color_blend # <<>>)
    /\ c.color_blend # <<>> =>
          LET rgb == c.color_blend[1]
              alpha == IF c.alpha_blend # <<>> THEN c.alpha_blend[1] ELSE rgb
          IN  g.blend = <<[ src_rgb |-> rgb.sfactor, dst_rgb |-> rgb.dfactor,
                            src_alpha |-> alpha.sfactor, dst_alpha |-> alpha.dfactor,
                            eq_rgb |-> rgb.equation, eq_alpha |-> alpha.equation ]>>
    /\ ("STENCIL_TEST" \in g.enabled) <=> (c.stencil # <<>>)
    /\ c.stencil # <<>> => g.stencil = c.stencil
    /\ g.color_mask = c.color_write

\* C23: an apply_pipeline(p) that completes makes no native cull-face,
\* blend, stencil or color-mask call for a state the cache already holds
\* with p's value (and, when all of them are as cached, enables and
\* disables nothing but the scissor and the depth test); afterwards the
\* cache holds p's cull face, blend states, stencil state and color mask,
\* and the GPU matches the cache, whatever was applied before.
C23_PipelineStateCached ==
    [][ \A pipeline \in Handles(pipelines) :
          ( /\ last'.op = "apply_pipeline"
            /\ last'.args.pipeline = pipeline
            /\ ~last'.panic )
          => LET p == pipelines[pipeline + 1].params
                 same_cull == cache.cull_face = p.cull_face
                 same_blend == cache.color_blend = p.color_blend /\ cache.alpha_blend = p.alpha_blend
                 same_stencil == cache.stencil = p.stencil_test
                 same_mask == cache.color_write = p.color_write
             IN  /\ same_cull => last'.calls.cull_face = 0
                 /\ same_blend => last'.calls.blend_func = 0 /\ last'.calls.blend_equation = 0
                 /\ same_stencil => last'.calls.stencil = 0
                 /\ same_mask => last'.calls.color_mask = 0
                 /\ (same_cull /\ same_blend /\ same_stencil)
                      => /\ last'.calls.enable = 1 + (IF p.depth_write THEN 1 ELSE 0)
                         /\ last'.calls.disable = (IF p.depth_write THEN 0 ELSE 1)
                 /\ cache'.cull_face = p.cull_face
                 /\ cache'.color_blend = p.color_blend
                 /\ cache'.alpha_blend = p.alpha_blend
                 /\ cache'.stencil = p.stencil_test
                 /\ cache'.color_write = p.color_write
                 /\ GpuMatchesCache(cache', gl') ]_vars

\* A pipeline with the alpha blend changed and the rest as cached was
\* applied: blend calls were made, and no cull-face, stencil or color-mask
\* call.
C23_Witness ==
    /\ last.op = "apply_pipeline"
    /\ ~last.panic
    /\ cache.color_blend = <<AlphaBlending>>
    /\ cache.alpha_blend = <<Additive>>
    /\ last.calls.blend_func = 1
    /\ last.calls.enable = 1
    /\ last.calls.cull_face = 0
    /\ last.calls.stencil = 0
    /\ last.calls.color_mask = 0
    /\ GpuMatchesCache(cache, gl)

\* The comparison the depth test of GPU g makes: a disabled test passes
\* every fragment.
DepthComparison(g) == IF "DEPTH_TEST" \in g.enabled THEN g.depth_func ELSE "Always"

\* Whether GPU g writes depth: the test is enabled and the mask lets through.
DepthWritten(g) == "DEPTH_TEST" \in g.enabled /\ g.depth_mask

\* C24 as stated: after apply_pipeline(p) the depth test of the GPU compares
\* with p.depth_test, and the GPU writes depth exactly when p.depth_write.
C24_DepthStateApplied ==
    [][ \A pipeline \in Handles(pipelines) :
          ( /\ last'.op = "apply_pipeline"
            /\ last'.args.pipeline = pipeline
            /\ ~last'.panic )
          => /\ DepthComparison(gl') = pipelines[pipeline + 1].params.depth_test
             /\ DepthWritten(gl') = pipelines[pipeline + 1].params.depth_write ]_vars

-----------------------------------------------------------------------------
(* Offsets and strides of a compiled pipeline, checked under PipeSpec      *)

\* The attributes (1-based) that store an entry at slot s: those the shader
\* resolves to a location from which one of their slots is s.
WritersOf(attributes, locate, s) ==
    { k \in 1 .. Len(attributes) :
        /\ locate[attributes[k].name] # NoLocation
        /\ s - locate[attributes[k].name] \in 0 .. SlotsOf(attributes[k]) - 1 }

LastOf(S) == CHOOSE k \in S : \A j \in S : j <= k

\* Every resolved attribute has its slots inside the table, every buffer
\* index names a declared buffer and no stride is over 255.
Compilable(buffer_layout, attributes, locate) ==
    /\ \A k \in 1 .. Len(attributes) :
            /\ attributes[k].buffer_index < Len(buffer_layout)
            /\ locate[attributes[k].name] # NoLocation
                  => locate[attributes[k].name] + SlotsOf(attributes[k]) <= attributes_len(attributes)
    /\ ~StrideExceeded(buffer_layout, attributes)

\* C28: in the table a new_pipeline stores, the entry of a slot is that of
\* the last attribute resolved to it; its offset is the sum of the byte
\* sizes of the attributes declared before that one with the same buffer
\* index, resolved or not (plus 16 for each earlier row of a Mat4), and its
\* stride is the declared stride of the buffer when non-zero and otherwise
\* the sum of the byte sizes of all attributes of the buffer.  A slot no
\* resolved attribute reaches has no entry, and an attribute list that is
\* compilable apart from unresolved names does not fail.
C28_OffsetsAndStrides ==
    [][ last'.op = "new_pipeline"
        => LET buffer_layout == last'.args.buffer_layout
               attributes == last'.args.attributes
               locate == LocationsOf(last'.args.shader)
           IN  /\ Compilable(buffer_layout, attributes, locate) => ~last'.panic
               /\ ~last'.panic =>
                    /\ Len(pipelines') = Len(pipelines) + 1
                    /\ LET layout == pipelines'[Len(pipelines')].layout
                       IN  \A s \in 0 .. Len(layout) - 1 :
                             LET writers == WritersOf(attributes, locate, s)
                             IN  IF writers = {}
                                 THEN layout[s + 1] = <<>>
                                 ELSE LET k == LastOf(writers)
                                          b == attributes[k].buffer_index + 1
                                          row == s - locate[attributes[k].name]
                                      IN  /\ Len(layout[s + 1]) = 1
                                          /\ layout[s + 1][1].buffer_index = b - 1
                                          /\ layout[s + 1][1].offset
                                                = PrefixBytes(attributes, k - 1, b) + 16 * row
                                          /\ layout[s + 1][1].stride
                                                = IF buffer_layout[b].stride # 0
                                                  THEN buffer_layout[b].stride
                                                  ELSE PrefixBytes(attributes, Len(attributes), b)
      ]_vars

\* A pipeline of an unresolved Mat4 followed by a resolved Float1 of the
\* same buffer: one entry, 64 bytes into a vertex of 68.
C28_Witness ==
    /\ last.op = "new_pipeline"
    /\ ~last.panic
    /\ last.args.buffer_layout = <<PerVertexLayout>>
    /\ last.args.attributes = << [name |-> "uv", format |-> "Mat4", buffer_index |-> 0],
                                 [name |-> "pos", format |-> "Float1", buffer_index |-> 0] >>
    /\ LocationsOf(last.args.shader)["uv"] = NoLocation
    /\ LocationsOf(last.args.shader)["pos"] = 1
    /\ Len(pipelines) = 1
    /\ Len(pipelines[1].layout) = 5
    /\ pipelines[1].layout[1] = <<>>
    /\ Len(pipelines[1].layout[2]) = 1
    /\ pipelines[1].layout[2][1].offset = 64
    /\ pipelines[1].layout[2][1].stride = 68

-----------------------------------------------------------------------------
(* Properties of delete_buffer, checked under Spec                        *)

\* C26: after a delete_buffer(b) that completes, the native handle b had
\* is no vertex or index buffer of the cache, current or stored, and is the
\* source buffer of none of the 16 cached attributes.
C26_DeletedBufferForgotten ==
    [][ \A buffer \in Handles(buffers) :
          ( /\ last'.op = "delete_buffer"
            /\ last'.args.buffer = buffer
            /\ ~last'.panic )
          => LET gl_buf == buffers[buffer + 1].gl_buf
             IN  /\ gl_buf # None
                 /\ cache'.vertex_buffer # gl_buf
                 /\ cache'.index_buffer # gl_buf
                 /\ cache'.stored_vertex_buffer # gl_buf
                 /\ cache'.stored_index_buffer # gl_buf
                 /\ \A attr_index \in AttrSlots :
                        \/ cache'.attributes[attr_index] = <<>>
                        \/ cache'.attributes[attr_index][1].gl_vbuf # gl_buf ]_vars

\* A delete_buffer that had a buffer to unbind, with a pipeline applied.
C26_Witness ==
    /\ last.op = "delete_buffer"
    /\ ~last.panic
    /\ last.calls.bind_buffer = 1
    /\ cache.cur_pipeline # <<>>
    /\ \A attr_index \in AttrSlots : cache.attributes[attr_index] = <<>>
    /\ gl.attrib_array[0]

-----------------------------------------------------------------------------
(* Properties of the pipeline table, checked under BindSpec                *)

C29_BindingsCached ==
    [][ ( /\ last'.op = "apply_bindings"
          /\ ~last'.panic )
        => /\ cache'.cur_pipeline # <<>>
           /\ LET layout == pipelines[cache'.cur_pipeline[1] + 1].layout
                  vertex_buffers == last'.args.bindings.vertex_buffers
              IN  \A s \in AttrSlots :
                     IF s < Len(layout) /\ layout[s + 1] # <<>>
                     THEN LET attribute == layout[s + 1][1]
                          IN  /\ attribute.buffer_index < Len(vertex_buffers)
                              /\ cache'.attributes[s] =
                                    << [ attribute |-> attribute,
                                         gl_vbuf |-> buffers[vertex_buffers[attribute.buffer_index + 1]
                                                                + 1].gl_buf ] >>
                     ELSE cache'.attributes[s] = <<>> ]_vars

\* An apply_bindings with two different vertex buffers that binds both
\* slots, each to its own buffer.
C29_Witness ==
    /\ last.op = "apply_bindings"
    /\ ~last.panic
    /\ ~last.repeat
    /\ Len(last.args.bindings.vertex_buffers) = 2
    /\ last.args.bindings.vertex_buffers[1] # last.args.bindings.vertex_buffers[2]
    /\ last.calls.vertex_attrib_pointer = 2
    /\ last.calls.disable_vertex_attrib_array = 0
    /\ cache.attributes[0] # <<>>
    /\ cache.attributes[1] # <<>>
    /\ cache.attributes[0][1].gl_vbuf # cache.attributes[1][1].gl_vbuf

\* C30 as stated: after an apply_bindings that completes, the attribute
\* arrays enabled on the GPU among the slots 0 .. 15 are those of the slots
\* with an entry in the table of the current pipeline.
C30_EnabledArraysMatch ==
    [][ ( /\ last'.op = "apply_bindings"
          /\ ~last'.panic )
        => LET layout == pipelines[cache'.cur_pipeline[1] + 1].layout
           IN  \A s \in AttrSlots :
                  gl'.attrib_array[s] <=> (s < Len(layout) /\ layout[s + 1] # <<>>) ]_vars

-----------------------------------------------------------------------------
(* Properties of the frame, checked under FrameSpec                        *)

\* C25: after commit_frame the cache holds no vertex buffer, no index
\* buffer, no index type and no texture in any of the 12 units, and the
\* GPU has no buffer bound to either target and no texture bound in any of
\* the units.
C25_FrameCleared ==
    [][ last'.op = "commit_frame"
        => /\ ~last'.panic
           /\ cache'.vertex_buffer = None
           /\ cache'.index_buffer = None
           /\ cache'.index_type = None
           /\ \A u \in TexUnits : cache'.textures[u] = None
           /\ gl'.array_buffer = None
           /\ gl'.element_array_buffer = None
           /\ \A u \in TexUnits : gl'.texture_2d[u] = None ]_vars

\* A commit_frame that had a vertex buffer, an index buffer and a texture
\* to unbind.
C25_Witness ==
    /\ last.op = "commit_frame"
    /\ last.calls.bind_buffer = 2
    /\ last.calls.bind_texture = 1
    /\ gl.buffers # {}
    /\ gl.textures # {}

-----------------------------------------------------------------------------
(* Properties of GlCache's texture methods, checked under TexCacheSpec     *)

\* C7: bind_texture(slot, texture) selects the unit natively every time,
\* binds natively exactly when the cached texture of the slot differs, and
\* leaves the cache holding the texture in that slot and what it held in
\* the others.
C7_BindTexture ==
    [][ \A slot_index \in TexUnits :
            (last'.op = "bind_texture" /\ last'.args.slot_index = slot_index)
            => /\ last'.calls.active_texture = 1
               /\ last'.calls.bind_texture
                    = (IF cache.textures[slot_index] # last'.args.texture THEN 1 ELSE 0)
               /\ cache'.textures = [cache.textures EXCEPT ![slot_index] = last'.args.texture] ]_vars

\* A texture was bound to slot 1 a second time, with another in slot 0.
C7_Witness ==
    /\ last.op = "bind_texture"
    /\ last.repeat
    /\ last.args.slot_index = 1
    /\ last.args.texture # None
    /\ last.calls.active_texture = 1
    /\ last.calls.bind_texture = 0
    /\ cache.textures[1] = last.args.texture
    /\ cache.textures[0] \notin {None, last.args.texture}

-----------------------------------------------------------------------------
(* Properties of the active program, checked under ProgSpec                *)

\* C31 as stated: whenever the cache has a current pipeline, the program in
\* use on the GPU is the program of the shader of that pipeline.
C31_ProgramOfCurrentPipeline ==
    Running /\ cache.cur_pipeline # <<>>
    => gl.program = shaders[pipelines[cache.cur_pipeline[1] + 1].shader + 1].program

-----------------------------------------------------------------------------
(* Properties of the buffer records, checked under Spec                    *)

\* C34: every record of the buffer table has an index element width exactly
\* when it is an index buffer, and the width is 1, 2 or 4; no operation
\* changes the kind or the width of a record; and a buffer_update of an
\* index buffer with a payload of another element size panics.
C34_IndexWidthLocked ==
    [][ /\ \A b \in 1 .. Len(buffers') :
              /\ buffers'[b].index_type # None <=> buffers'[b].buffer_type = IndexBuffer
              /\ buffers'[b].buffer_type = IndexBuffer => buffers'[b].index_type \in {1, 2, 4}
        /\ \A b \in 1 .. Len(buffers) :
              /\ Len(buffers') >= b
              /\ buffers'[b].buffer_type = buffers[b].buffer_type
              /\ buffers'[b].index_type = buffers[b].index_type
        /\ \A buffer \in Handles(buffers) :
              ( /\ last'.op = "buffer_update"
                /\ last'.args.buffer = buffer
                /\ buffers[buffer + 1].buffer_type = IndexBuffer
                /\ last'.args.data.element_size # buffers[buffer + 1].index_type )
              => last'.panic /\ UNCHANGED <<tables, cache, gl>> ]_vars

\* An index buffer of u16 refused a slice of u8 that fits in it, with a
\* vertex buffer in the table beside it.
C34_Witness ==
    /\ last.op = "buffer_update"
    /\ last.panic
    /\ last.args.data.kind = "Slice"
    /\ buffers[last.args.buffer + 1].buffer_type = IndexBuffer
    /\ buffers[last.args.buffer + 1].index_type = 2
    /\ last.args.data.element_size = 1
    /\ last.args.data.size <= buffer_size(last.args.buffer)
    /\ \E b \in 1 .. Len(buffers) :
            buffers[b].buffer_type = VertexBuffer /\ buffers[b].index_type = None

\* C35: a new_buffer of an index buffer whose element size is not 1, 2 or 4
\* panics before any native call: the tables, the cache and the GPU state
\* are unchanged and no handle is returned.
C35_BadIndexWidthRefused ==
    [][ ( /\ last'.op = "new_buffer"
          /\ last'.args.type_ = IndexBuffer
          /\ last'.args.data.element_size \notin {1, 2, 4} )
        => /\ last'.panic
           /\ last'.result = <<>>
           /\ last'.calls = NoCalls
           /\ UNCHANGED <<tables, cache, gl>> ]_vars

\* An index buffer of 3-byte elements was refused, with a buffer in the
\* table already.
C35_Witness ==
    /\ last.op = "new_buffer"
    /\ last.panic
    /\ last.args.type_ = IndexBuffer
    /\ last.args.data.element_size = 3
    /\ Len(buffers) >= 1
    /\ gl.buffers # {}

-----------------------------------------------------------------------------
(* The index type of GlCache, checked under CacheSpec                      *)

\* C36: bind_buffer on the index target leaves the cached index type equal
\* to the index_type it was given on every call, also when the buffer is
\* the cached index buffer and no native bind is made; bind_buffer on the
\* vertex target changes neither the cached index buffer nor the cached
\* index type.
C36_IndexTypeFollowsCall ==
    [][ last'.op = "bind_buffer"
        => IF last'.args.target = ELEMENT_ARRAY_BUFFER
           THEN /\ cache'.index_type = last'.args.index_type
                /\ cache'.index_buffer = last'.args.buffer
                /\ last'.calls.bind_buffer
                      = (IF cache.index_buffer # last'.args.buffer THEN 1 ELSE 0)
           ELSE /\ cache'.index_buffer = cache.index_buffer
                /\ cache'.index_type = cache.index_type ]_vars

\* The index buffer was bound a second time with another index type: no
\* native bind, and the cache holds the second type.
C36_Witness ==
    /\ last.op = "bind_buffer"
    /\ last.args.target = ELEMENT_ARRAY_BUFFER
    /\ last.args.buffer # None
    /\ last.args.index_type = 2
    /\ last.calls.bind_buffer = 0
    /\ hist.before # <<>>
    /\ hist.before[1].op = "bind_buffer"
    /\ hist.before[1].args.target = ELEMENT_ARRAY_BUFFER
    /\ hist.before[1].args.buffer = last.args.buffer
    /\ hist.before[1].args.index_type = 1
    /\ cache.index_type = 2

-----------------------------------------------------------------------------
(* Operations inside and outside a pass, checked under InPassSpec          *)

\* The machine with another framebuffer bound: what begin_pass and
\* begin_default_pass leave different from the state outside a pass.
InFramebuffer(m, framebuffer) == [m EXCEPT !.gl.framebuffer = framebuffer]

\* The step has the effect m, computed with another framebuffer bound, has
\* on the cache, on the GPU state but the framebuffer, and on the calls.
SameEffect(m) ==
    /\ last'.panic = m.panicked
    /\ last'.calls = m.calls
    /\ cache' = m.cache
    /\ gl' = [m.gl EXCEPT !.framebuffer = gl.framebuffer]

\* C37: apply_pipeline, apply_bindings, apply_uniforms and draw are accepted
\* with a pass begun or not, leave the framebuffer binding as it is, and do
\* to the cache and to the GPU what they do with any other framebuffer
\* bound; after end_render_pass the default framebuffer is bound and both
\* buffer targets hold no buffer in the cache and on the GPU.
C37_PassIndependent ==
    [][ /\ last'.op = "apply_pipeline"
           => /\ ~last'.panic
              /\ cache'.cur_pipeline = <<last'.args.pipeline>>
              /\ gl'.program = shaders[pipelines[last'.args.pipeline + 1].shader + 1].program
              /\ gl'.framebuffer = gl.framebuffer
        /\ (last'.op = "draw" /\ cache.cur_pipeline # <<>>)
           => /\ ~last'.panic
              /\ last'.calls.draw = 1
              /\ UNCHANGED <<cache, gl>>
        /\ (last'.op = "apply_bindings" /\ cache.cur_pipeline # <<>>)
           => LET pip == pipelines[cache.cur_pipeline[1] + 1]
                  shader == shaders[pip.shader + 1]
                  bindings == last'.args.bindings
              IN  \A framebuffer \in {default_framebuffer} \cup gl.framebuffers :
                     SameEffect(bind_attributes(
                                  bind_images(InFramebuffer(Machine(cache, gl), framebuffer),
                                              shader, bindings, 0),
                                  pip, bindings, 0))
        /\ (last'.op = "apply_uniforms_from_bytes" /\ cache.cur_pipeline # <<>>)
           => LET pip == pipelines[cache.cur_pipeline[1] + 1]
                  shader == shaders[pip.shader + 1]
              IN  /\ ~last'.panic
                  /\ \A framebuffer \in {default_framebuffer} \cup gl.framebuffers :
                        SameEffect(upload_uniforms(
                                     InFramebuffer(Machine(cache, gl), framebuffer), shader,
                                     last'.args.uniforms, last'.args.size,
                                     last'.args.overflow_checks, 0, 0))
        /\ last'.op = "end_render_pass"
           => /\ ~last'.panic
              /\ gl'.framebuffer = default_framebuffer
              /\ cache'.vertex_buffer = None /\ cache'.index_buffer = None
              /\ gl'.array_buffer = None /\ gl'.element_array_buffer = None
      ]_vars

\* A draw inside an offscreen pass, with a vertex buffer bound.
C37_Witness ==
    /\ last.op = "draw"
    /\ ~last.panic
    /\ last.calls.draw = 1
    /\ gl.framebuffer # default_framebuffer
    /\ gl.framebuffer \in gl.framebuffers
    /\ cache.vertex_buffer # None
    /\ gl.array_buffer = cache.vertex_buffer

-----------------------------------------------------------------------------
(* Failures of the delete operations, checked under PassSpec               *)

\* C38 as stated: delete_render_pass on a pass that has its framebuffer
\* does not panic, whether or not its textures were deleted before; and a
\* delete_render_pass or delete_texture that panics has deleted no native
\* object.
C38_DeleteRenderPassCompletes ==
    [][ /\ \A pass \in Handles(passes) :
              ( /\ last'.op = "delete_render_pass"
                /\ last'.args.pass = pass
                /\ passes[pass + 1].gl_fb # None )
              => ~last'.panic
        /\ (last'.op \in {"delete_render_pass", "delete_texture"} /\ last'.panic)
              => /\ gl'.framebuffers = gl.framebuffers
                 /\ gl'.textures = gl.textures ]_vars

-----------------------------------------------------------------------------
(* The primitive type of a draw, checked under ProgSpec                    *)

\* C39 as stated: the native draw call of a draw is made with the primitive
\* type of the parameters of the applied pipeline: triangles or lines.
C39_DrawUsesPrimitiveType ==
    [][ ( /\ last'.op = "draw"
          /\ ~last'.panic
          /\ cache.cur_pipeline # <<>>
          /\ last'.calls.draw = 1 )
        => last'.calls.drawn[1].mode
              = (IF pipelines[cache.cur_pipeline[1] + 1].params.primitive_type = "Lines"
                 THEN "LINES"
                 ELSE "TRIANGLES") ]_vars

-----------------------------------------------------------------------------
(* A pipeline with an alpha blend and no color blend, checked under        *)
(* ParamSpec                                                               *)

\* C40 as stated: new_pipeline_with_params accepts parameters with an
\* alpha_blend and no color_blend; apply_pipeline on such a pipeline
\* panics, and leaves the current pipeline of the cache as it was.
C40_AlphaWithoutColor ==
    [][ /\ ( /\ last'.op = "new_pipeline"
             /\ last'.args.params.color_blend = <<>>
             /\ last'.args.params.alpha_blend # <<>> )
           => /\ ~last'.panic
              /\ Len(pipelines') = Len(pipelines) + 1
              /\ pipelines'[Len(pipelines')].params = last'.args.params
        /\ \A pipeline \in Handles(pipelines) :
              ( /\ last'.op = "apply_pipeline"
                /\ last'.args.pipeline = pipeline
                /\ pipelines[pipeline + 1].params.color_blend = <<>>
                /\ pipelines[pipeline + 1].params.alpha_blend # <<>> )
              => /\ last'.panic
                 /\ cache'.cur_pipeline = cache.cur_pipeline ]_vars

-----------------------------------------------------------------------------
(* Offsets of the uniform upload, checked under UniSpec                    *)

\* The native calls for the first n slots of a block: one for each slot
\* with a location, reading at the sum of the bytes of the slots before it.
RECURSIVE ExpectedUploads(_, _)
ExpectedUploads(uniforms, n) ==
    IF n = 0
    THEN <<>>
    ELSE ExpectedUploads(uniforms, n - 1)
            \o (IF uniforms[n].gl_loc # NoLocation
                THEN << [ gl_loc |-> uniforms[n].gl_loc,
                          uniform_type |-> uniforms[n].uniform_type,
                          offset |-> UniformOffset(uniforms, n) ] >>
                ELSE <<>>)

\* C33: an apply_uniforms_from_bytes that completes makes, in slot order,
\* exactly one native uniform call for each slot of the active shader that
\* has a location and none for a slot without one, and the call of slot k
\* reads at the sum over the slots before k of the byte width of the type
\* times the array count, whether or not those slots have a location.
C33_UniformOffsets ==
    [][ ( /\ last'.op = "apply_uniforms_from_bytes"
          /\ ~last'.panic )
        => /\ cache.cur_pipeline # <<>>
           /\ LET uniforms == shaders[pipelines[cache.cur_pipeline[1] + 1].shader + 1].uniforms
              IN  /\ last'.calls.uploaded = ExpectedUploads(uniforms, Len(uniforms))
                  /\ last'.calls.uniform = Len(last'.calls.uploaded) ]_vars

\* An array of two floats the linker dropped, followed by a float it kept:
\* the one native call reads at byte 8.
C33_Witness ==
    /\ last.op = "apply_uniforms_from_bytes"
    /\ ~last.panic
    /\ Len(shaders[1].uniforms) = 2
    /\ shaders[1].uniforms[1].array_count = 2
    /\ shaders[1].uniforms[1].gl_loc = NoLocation
    /\ shaders[1].uniforms[2].gl_loc = 1
    /\ last.calls.uniform = 1
    /\ last.calls.uploaded = <<[gl_loc |-> 1, uniform_type |-> "Float1", offset |-> 8]>>

-----------------------------------------------------------------------------
(* Properties of deleted textures, checked under TexSpec                   *)

\* C32 as stated: after a delete_texture(t) that completes, or a
\* delete_render_pass that completes and deletes t, no texture unit of the
\* cache and not the stored texture holds the native name t had.
C32_DeletedTextureForgotten ==
    [][ \A texture \in Handles(textures) :
          ( /\ last'.op \in {"delete_texture", "delete_render_pass"}
            /\ ~last'.panic
            /\ textures[texture + 1].raw # None
            /\ textures'[texture + 1].raw = None )
          => /\ \A unit \in TexUnits : cache'.textures[unit] # textures[texture + 1].raw
             /\ cache'.stored_texture # textures[texture + 1].raw ]_vars

====
